---------------------------- MODULE Spec2Model ----------------------------
(***************************************************************************)
(* A model of the Shigure chaincode: the permission aggregator (users and  *)
(* groups), the ACL engine, and the object / secondary-index coordinator.  *)
(*                                                                         *)
(* The world state is a key-value store; every section of it (User, Group, *)
(* ACL, Bucket, Object, Index, IndexEntry) is a function from the          *)
(* attributes of its composite key to the stored document.  PutState and   *)
(* DelState act on the store at once, in the order the code issues them.   *)
(*                                                                         *)
(* A Go run-time panic (nil dereference, index out of range) is the        *)
(* outcome "panic": the call returns nothing to its caller.                *)
(***************************************************************************)
EXTENDS Integers, Sequences, FiniteSets, TLC

VARIABLES users, groups, acls, buckets, objects, deleted, indexes, entries,
          nextid, engine, last, walk, test

vars == <<users, groups, acls, buckets, objects, deleted, indexes, entries,
          nextid, engine, last, walk, test>>

store == <<users, groups, acls, buckets, objects, deleted, indexes, entries,
           nextid>>

---------------------------------------------------------------------------
(* Bounds of the model *)

\* number of SubUser links in the chain of users the walk specification draws
MaxChain == 2

\* number of identifiers uuid.NewString() hands out in a behaviour of the
\* store specification
MaxIds == 3

---------------------------------------------------------------------------
(* Program constants *)

User_SysPerms_AddUsers == 1
User_SysPerms_AddSubUsers == 2
User_SysPerms_AddGroups == 4
User_SysPerms_AddBuckets == 8

ACL_Perms_ListObjects == 1
ACL_Perms_ReadObject == 2
ACL_Perms_CreateObject == 4
ACL_Perms_OverwriteObject == 8
ACL_Perms_DeleteObject == 16

ACL_EntryType_User == 0
ACL_EntryType_Group == 1

ACL_AccessType_Read == 0
ACL_AccessType_Create == 1
ACL_AccessType_Overwrite == 2
ACL_AccessType_Delete == 3
ACL_AccessType_List == 4

\* var lastperms uint32 = 0x000000ff
FullPerms == 255

---------------------------------------------------------------------------
(* Values *)

\* the empty Go map / an absent document
EmptyMap == [x \in {} |-> 0]

\* a nil *User / *Group
NilPtr == "<nil>"

\* the "*" bucket of a link's permission map
Wildcard == "*"

RECURSIVE BitAnd(_, _)
\* a & b on unsigned integers
BitAnd(a, b) ==
    IF a = 0 \/ b = 0 THEN 0
    ELSE (a % 2) * (b % 2) + 2 * BitAnd(a \div 2, b \div 2)

\* m[k] = v on a Go map
MapPut(m, k, v) == [x \in DOMAIN m \cup {k} |-> IF x = k THEN v ELSE m[x]]

\* m[k] on a Go map of uint32: the zero value when the key is absent
MapGet(m, k) == IF k \in DOMAIN m THEN m[k] ELSE 0

---------------------------------------------------------------------------
(* The permission aggregator: gatheruperms and gatherallgperms            *)

\* perms, ok := ent.Perms[bucket]; if !ok || perms == 0 { perms, ok =
\* ent.Perms["*"] ... }: the grant of a link for a bucket, 0 when the link has
\* neither a non-zero exact grant nor a non-zero wildcard grant
ApplicableGrant_WildcardFirst(perms, bucket) ==
    IF Wildcard \in DOMAIN perms /\ perms[Wildcard] # 0 THEN perms[Wildcard]
    ELSE IF bucket \in DOMAIN perms /\ perms[bucket] # 0 THEN perms[bucket]
    ELSE 0

ApplicableGrant_ZeroStops(perms, bucket) ==
    IF bucket \in DOMAIN perms THEN perms[bucket]
    ELSE IF Wildcard \in DOMAIN perms THEN perms[Wildcard]
    ELSE 0

ApplicableGrant(perms, bucket) ==
    IF bucket \in DOMAIN perms /\ perms[bucket] # 0 THEN perms[bucket]
    ELSE IF Wildcard \in DOMAIN perms /\ perms[Wildcard] # 0 THEN perms[Wildcard]
    ELSE 0

\* The post statement of both walks, "u = parent" / "g = parent".  The body's
\* "parent, err := s.GetUserByID(...)" declares a new variable parent in the
\* body's scope; the post statement is outside that scope and reads the
\* function's "var parent *User = nil", which nothing ever assigns.
LoopPost_Fetched(fetched) == fetched

LoopPost(fetched) == NilPtr

\* The walk's state: the function running, its arguments (start for
\* gatheruperms, glist for gatherallgperms), the loop variables and the outcome.
\*   status: idle | running | returned | error | panic
IdleWalk ==
    [fn |-> "none", bucket |-> "", start |-> "", glist |-> <<>>, gi |-> 0,
     pc |-> "", cur |-> NilPtr, lastperms |-> 0, rv |-> EmptyMap,
     visited |-> <<>>, status |-> "idle"]

RECURSIVE ScanSubUsers(_, _, _, _, _)
\* for _, ent := range parent.SubUsers { if ent.ID == u.ID { ... } } of
\* gatheruperms, from entry i on; acc = [lastperms, rv, stop]
ScanSubUsers(links, i, child, bucket, acc) ==
    IF i > Len(links) \/ acc.stop THEN acc
    ELSE IF links[i].ID # child.ID
         THEN ScanSubUsers(links, i + 1, child, bucket, acc)
    ELSE LET perms == ApplicableGrant(links[i].Perms, bucket) IN
         IF perms = 0
         THEN [acc EXCEPT !.stop = TRUE]              \* return rv, nil
         ELSE LET lp == BitAnd(acc.lastperms, perms) IN
              ScanSubUsers(links, i + 1, child, bucket,
                  [acc EXCEPT !.lastperms = lp,
                              !.rv = IF lp # 0
                                     THEN MapPut(acc.rv, child.parentID, lp)
                                     ELSE acc.rv])

\* rv := map[string]uint32{}; lastperms = 0xff; rv[user.ID] = lastperms; u := user
gatheruperms_begin(uid, bucket) ==
    [IdleWalk EXCEPT !.fn = "gatheruperms", !.bucket = bucket, !.start = uid,
                     !.cur = uid, !.lastperms = FullPerms,
                     !.rv = MapPut(EmptyMap, uid, FullPerms),
                     !.status = "running"]

\* One evaluation of the loop of gatheruperms: the condition, the body and the
\* post statement.
gatheruperms_iter(us, w) ==
    IF w.cur = NilPtr
    THEN [w EXCEPT !.status = "panic"]               \* u.Parent with u == nil
    ELSE LET u == us[w.cur] IN
    IF u.Parent = "" \/ w.lastperms = 0
    THEN [w EXCEPT !.status = "returned"]            \* return rv, nil
    ELSE IF u.Parent \notin DOMAIN us
    THEN [w EXCEPT !.status = "error", !.rv = EmptyMap]
    ELSE LET parent == us[u.Parent]
             r == ScanSubUsers(parent.SubUsers, 1,
                               [ID |-> u.ID, parentID |-> parent.ID], w.bucket,
                               [lastperms |-> w.lastperms, rv |-> w.rv,
                                stop |-> FALSE])
         IN IF r.stop
            THEN [w EXCEPT !.rv = r.rv, !.lastperms = r.lastperms,
                           !.visited = Append(w.visited, parent.ID),
                           !.status = "returned"]
            ELSE [w EXCEPT !.rv = r.rv, !.lastperms = r.lastperms,
                           !.visited = Append(w.visited, parent.ID),
                           !.cur = LoopPost(parent.ID)]

RECURSIVE RunUWalk(_, _)
RunUWalk(us, w) ==
    IF w.status # "running" THEN w ELSE RunUWalk(us, gatheruperms_iter(us, w))

\* gatheruperms(user, bucket): the final state of the walk
gatheruperms(us, uid, bucket) == RunUWalk(us, gatheruperms_begin(uid, bucket))

RECURSIVE ScanSubGroups(_, _, _, _, _)
\* for _, ent := range parent.SubGroups { if ent.ID == g.ID { ... } } of
\* gatherallgperms; "break" leaves this range loop only
ScanSubGroups(links, i, child, bucket, acc) ==
    IF i > Len(links) \/ acc.stop THEN acc
    ELSE IF links[i].ID # child.ID
         THEN ScanSubGroups(links, i + 1, child, bucket, acc)
    ELSE LET perms == ApplicableGrant(links[i].Perms, bucket) IN
         IF perms = 0
         THEN [acc EXCEPT !.stop = TRUE]              \* break
         ELSE LET lp == BitAnd(acc.lastperms, perms) IN
              ScanSubGroups(links, i + 1, child, bucket,
                  [acc EXCEPT !.lastperms = lp,
                              !.rv = IF lp # 0 /\ lp > MapGet(acc.rv, child.parentID)
                                     THEN MapPut(acc.rv, child.parentID, lp)
                                     ELSE acc.rv])

\* rv := map[string]uint32{}; the range over groups has not started
gatherallgperms_begin(glist, bucket) ==
    [IdleWalk EXCEPT !.fn = "gatherallgperms", !.bucket = bucket,
                     !.glist = glist, !.gi = 1, !.pc = "group",
                     !.lastperms = FullPerms, !.status = "running"]

\* One step of gatherallgperms: the start of the body of the range over groups
\* (pc = "group"), or one evaluation of the inner loop (pc = "walk").
gatherallgperms_iter(gs, w) ==
    IF w.pc = "group"
    THEN IF w.gi > Len(w.glist)
         THEN [w EXCEPT !.status = "returned"]
         ELSE [w EXCEPT !.lastperms = FullPerms,
                        !.rv = MapPut(w.rv, w.glist[w.gi], FullPerms),
                        !.cur = w.glist[w.gi], !.pc = "walk"]
    ELSE IF w.cur = NilPtr
    THEN [w EXCEPT !.status = "panic"]               \* g.Parent with g == nil
    ELSE LET g == gs[w.cur] IN
    IF g.Parent = "" \/ w.lastperms = 0
    THEN [w EXCEPT !.gi = w.gi + 1, !.pc = "group"]
    ELSE IF g.Parent \notin DOMAIN gs
    THEN [w EXCEPT !.status = "error", !.rv = EmptyMap]
    ELSE LET parent == gs[g.Parent]
             r == ScanSubGroups(parent.SubGroups, 1,
                                [ID |-> g.ID, parentID |-> parent.ID], w.bucket,
                                [lastperms |-> w.lastperms, rv |-> w.rv,
                                 stop |-> FALSE])
         IN [w EXCEPT !.rv = r.rv, !.lastperms = r.lastperms,
                      !.visited = Append(w.visited, parent.ID),
                      !.cur = LoopPost(parent.ID)]

RECURSIVE RunGWalk(_, _)
RunGWalk(gs, w) ==
    IF w.status # "running" THEN w ELSE RunGWalk(gs, gatherallgperms_iter(gs, w))

\* gatherallgperms(groups, bucket): the final state of the walk
gatherallgperms(gs, glist, bucket) ==
    RunGWalk(gs, gatherallgperms_begin(glist, bucket))

---------------------------------------------------------------------------
(* The ACL engine: testaclaccess                                          *)

\* GetUserByUID: the rich query {"selector":{"type":"User","uid":uid}}; the ID
\* of the first document it returns, NilPtr when it returns none
GetUserByUID(us, uid) ==
    IF \E id \in DOMAIN us : us[id].UID = uid
    THEN CHOOSE id \in DOMAIN us : us[id].UID = uid
    ELSE NilPtr

\* the order in which the state database lists Group documents (by key)
GroupKeyOrder == <<"A", "G1", "G2", "R">>

\* getusergroups: the rich query for the groups whose "users" array holds id.
\* The selector the code formats lacks its two closing braces, so what the
\* query returns is the query engine's decision: a "strict" engine rejects the
\* selector (the call returns an error), a "lenient" one serves the documents
\* the selector describes, in key order.
getusergroups(gs, eng, id) ==
    IF eng = "strict"
    THEN [err |-> TRUE, list |-> <<>>]
    ELSE [err |-> FALSE,
          list |-> SelectSeq(GroupKeyOrder,
                             LAMBDA g : /\ g \in DOMAIN gs
                                        /\ \E i \in 1..Len(gs[g].Users) :
                                              gs[g].Users[i] = id)]

\* GatherGroupPermsForUserByID: getusergroups, then gatherallgperms
GatherGroupPermsForUserByID(gs, eng, id, bucket) ==
    LET q == getusergroups(gs, eng, id) IN
    IF q.err THEN [IdleWalk EXCEPT !.status = "error"]
    ELSE gatherallgperms(gs, q.list, bucket)

\* var access_to_bits = [...]uint32 { Read, Create, Overwrite, Delete }
access_to_bits ==
    <<ACL_Perms_ReadObject, ACL_Perms_CreateObject,
      ACL_Perms_OverwriteObject, ACL_Perms_DeleteObject>>

\* (p & ent.Permissions) != 0
EntryMatches(p, ent, bit) == BitAnd(p, ent.Permissions) # 0

RECURSIVE ScanACL_FirstEntryDecides(_, _, _, _, _)
\* a scan in which the first entry that has the bit of the access decides: an
\* entry that does not match the caller denies the access
ScanACL_FirstEntryDecides(acl, i, access, iuser, igroups) ==
    IF i > Len(acl) THEN "denied"
    ELSE IF access + 1 > Len(access_to_bits) THEN "panic"
    ELSE IF BitAnd(access_to_bits[access + 1], acl[i].Permissions) = 0
    THEN ScanACL_FirstEntryDecides(acl, i + 1, access, iuser, igroups)
    ELSE IF /\ acl[i].EntryType = ACL_EntryType_User
            /\ EntryMatches(MapGet(iuser, acl[i].ID), acl[i],
                            access_to_bits[access + 1])
    THEN "granted"
    ELSE IF /\ acl[i].EntryType = ACL_EntryType_Group
            /\ EntryMatches(MapGet(igroups, acl[i].ID), acl[i],
                            access_to_bits[access + 1])
    THEN "granted"
    ELSE "denied"

RECURSIVE ScanACL(_, _, _, _, _)
\* for _, ent := range acl { ... } of testaclaccess, from entry i on
ScanACL(acl, i, access, iuser, igroups) ==
    IF i > Len(acl) THEN "denied"                     \* return false
    ELSE IF access + 1 > Len(access_to_bits)
    THEN "panic"                                      \* access_to_bits[access]
    ELSE LET ent == acl[i]
             bit == access_to_bits[access + 1]
         IN IF BitAnd(bit, ent.Permissions) = 0
            THEN ScanACL(acl, i + 1, access, iuser, igroups)
            ELSE IF /\ ent.EntryType = ACL_EntryType_User
                    /\ EntryMatches(MapGet(iuser, ent.ID), ent, bit)
            THEN "granted"
            ELSE IF /\ ent.EntryType = ACL_EntryType_Group
                    /\ EntryMatches(MapGet(igroups, ent.ID), ent, bit)
            THEN "granted"
            ELSE ScanACL(acl, i + 1, access, iuser, igroups)

\* if access > uint32(len(access_to_bits)) { return false }
AccessOutOfRange(access) == access > Len(access_to_bits)

\* testaclaccess once both maps are gathered: a map that is nil or came with
\* an error makes the test false, then the entries are scanned
testaclaccess_scan(acl, access, iuser, grps) ==
    IF iuser.status = "panic" THEN "panic"
    ELSE IF iuser.status = "error" THEN "denied"      \* iuser == nil
    ELSE IF grps.status = "panic" THEN "panic"
    ELSE IF grps.status = "error" THEN "denied"       \* err != nil
    ELSE ScanACL(acl, 1, access, iuser.rv, grps.rv)

\* testaclaccess once the caller's User is looked up
testaclaccess_user(us, gs, eng, acl, user, bucket, access) ==
    IF user = NilPtr THEN "denied"
    ELSE testaclaccess_scan(acl, access, gatheruperms(us, user, bucket),
                            GatherGroupPermsForUserByID(gs, eng, user, bucket))

\* testaclaccess(acl, uid, bucket, access): "granted" (true), "denied" (false)
\* or "panic"
testaclaccess(us, gs, eng, acl, uid, bucket, access) ==
    IF AccessOutOfRange(access) THEN "denied"
    ELSE testaclaccess_user(us, gs, eng, acl, GetUserByUID(us, uid), bucket, access)

---------------------------------------------------------------------------
(* The world state and the calls on it                                    *)

\* the world state as one value
World ==
    [users |-> users, groups |-> groups, acls |-> acls, buckets |-> buckets,
     objects |-> objects, deleted |-> deleted, indexes |-> indexes,
     entries |-> entries, nextid |-> nextid, engine |-> engine]

\* DelState on a section of the store
MapDel(m, k) == [x \in DOMAIN m \ {k} |-> m[x]]

\* a nil document pointer
NoDoc == [Type |-> NilPtr]

IsNil(d) == d.Type = NilPtr

\* what a call leaves: its outcome ("ok", "err" for a returned error, "panic"),
\* its return value and the world state after the writes it made
Ret(outcome, rv, ws) == [outcome |-> outcome, rv |-> rv, ws |-> ws]

\* uuid.NewString(): an identifier no document of the store carries
NewID(ws) == ws.nextid + 1

\* GetMyUser: the ID of the caller's User document, NilPtr with an error
GetMyUser(ws, caller) == GetUserByUID(ws.users, caller)

\* GetGroupByName: the ID of the first Group document with that name
GetGroupByName(gs, name) ==
    IF \E g \in DOMAIN gs : gs[g].Name = name
    THEN CHOOSE g \in DOMAIN gs : gs[g].Name = name
    ELSE NilPtr

\* GetBucket
GetBucket(ws, name) ==
    IF name \in DOMAIN ws.buckets THEN ws.buckets[name] ELSE NoDoc

---------------------------------------------------------------------------
(* ACL templates                                                          *)

\* the template names that hold a double quote
QuotedNames == {"q\"t"}

\* getuseraclbyname: the first ACL document with that name and owner.  The
\* selector is the text {"selector":{"type":"ACL","name":"%s","owner":"%s"}}
\* with the name formatted in as it is: for a name that holds a double quote
\* the text is not JSON, a "strict" query engine rejects it (nil and an error)
\* and a "lenient" one serves the selection that was meant.
getuseraclbyname(ws, id, name) ==
    LET hits == {a \in DOMAIN ws.acls :
                    ws.acls[a].Name = name /\ ws.acls[a].Owner = id}
    IN IF name \in QuotedNames /\ ws.engine = "strict" THEN NoDoc
       ELSE IF hits = {} THEN NoDoc
       ELSE ws.acls[CHOOSE a \in hits : \A b \in hits : a <= b]

\* GetMyACLByName
GetMyACLByName(ws, caller, name) ==
    LET me == GetMyUser(ws, caller) IN
    IF me = NilPtr THEN NoDoc ELSE getuseraclbyname(ws, me, name)

\* GetACLByID
GetACLByID(ws, id) == IF id \in DOMAIN ws.acls THEN ws.acls[id] ELSE NoDoc

\* templatetoacl: the stored ACL of an object or bucket, a copy of the ID, the
\* kind and the bitmask of every entry of the template (tacl is not nil)
templatetoacl(tacl) ==
    [i \in 1..Len(tacl.Permissions) |->
        [ID |-> tacl.Permissions[i].ID,
         EntryType |-> tacl.Permissions[i].EntryType,
         Permissions |-> tacl.Permissions[i].Permissions]]

\* a store in which the buckets of the template's owner follow the template
WriteACL_Resnapshot(ws, tacl) ==
    [ws EXCEPT !.acls = MapPut(@, tacl.ID, tacl),
               !.buckets = [b \in DOMAIN @ |->
                   IF @[b].Owner = tacl.Owner /\ Len(@[b].Permissions) # 0
                   THEN [@[b] EXCEPT !.Permissions = templatetoacl(tacl)]
                   ELSE @[b]]]

\* PutState(CreateCompositeKey("ACL", {acl.ID}), aclJSON)
WriteACL(ws, tacl) == [ws EXCEPT !.acls = MapPut(@, tacl.ID, tacl)]

\* DelState(CreateCompositeKey("ACL", {id}))
DeleteACL(ws, id) == [ws EXCEPT !.acls = MapDel(@, id)]

\* the User or Group an entry names: GetUserByUID for the User kind,
\* GetGroupByName for every other kind
ResolveEntity(ws, entrytype, entity) ==
    IF entrytype = ACL_EntryType_User
    THEN GetUserByUID(ws.users, entity)
    ELSE GetGroupByName(ws.groups, entity)

\* the position of the first entry with that kind and ID, 0 when there is none
FindEntry(perms, entrytype, id) ==
    IF \E i \in 1..Len(perms) : perms[i].EntryType = entrytype /\ perms[i].ID = id
    THEN CHOOSE i \in 1..Len(perms) :
            /\ perms[i].EntryType = entrytype /\ perms[i].ID = id
            /\ \A j \in 1..(i - 1) :
                  ~(perms[j].EntryType = entrytype /\ perms[j].ID = id)
    ELSE 0

\* acl.Permissions = append(acl.Permissions[:i], acl.Permissions[i + 1:]...)
RemoveAt(perms, i) == SubSeq(perms, 1, i - 1) \o SubSeq(perms, i + 1, Len(perms))

\* the entries CreateACL makes of one of its maps, ranged over in the order
\* ents; prefix is the text Sprintf puts before the name
TemplateEntries(ws, ents, kind, prefix) ==
    [i \in 1..Len(ents) |->
        [ID |-> ResolveEntity(ws, kind, ents[i].name),
         Entity |-> <<prefix, ents[i].name>>,
         EntryType |-> kind,
         Permissions |-> ents[i].perms]]

\* CreateACL(name, uperms, gperms): group entries first, then user entries
CreateACL(ws, caller, name, uents, gents) ==
    LET me == GetMyUser(ws, caller) IN
    IF me = NilPtr THEN Ret("err", "", ws)
    ELSE IF ~IsNil(getuseraclbyname(ws, me, name))
    THEN Ret("err", "", ws)                           \* ACL already exists
    ELSE IF \E i \in 1..Len(gents) :
               GetGroupByName(ws.groups, gents[i].name) = NilPtr
    THEN Ret("err", "", ws)                           \* unknown group
    ELSE IF \E i \in 1..Len(uents) :
               GetUserByUID(ws.users, uents[i].name) = NilPtr
    THEN Ret("err", "", ws)                           \* unknown user
    ELSE LET acl == [Type |-> "ACL", ID |-> NewID(ws), Owner |-> me,
                     Name |-> name,
                     Permissions |->
                        TemplateEntries(ws, gents, ACL_EntryType_Group, "Group: ")
                        \o TemplateEntries(ws, uents, ACL_EntryType_User, "User: ")]
         IN Ret("ok", "id", [WriteACL(ws, acl) EXCEPT !.nextid = NewID(ws)])

\* DeleteACLEntry(name, entrytype, entity)
DeleteACLEntry(ws, caller, name, entrytype, entity) ==
    LET acl == GetMyACLByName(ws, caller, name) IN
    IF IsNil(acl) THEN Ret("err", "false", ws)        \* unknown acl
    ELSE LET id == ResolveEntity(ws, entrytype, entity) IN
    IF id = NilPtr THEN Ret("err", "false", ws)
    ELSE LET i == FindEntry(acl.Permissions, entrytype, id) IN
    IF i = 0 THEN Ret("ok", "false", ws)              \* return false, nil
    ELSE Ret("ok", "true",
             WriteACL(ws, [acl EXCEPT !.Permissions = RemoveAt(@, i)]))

\* AddACLEntry(name, entrytype, entity, perms)
AddACLEntry(ws, caller, name, entrytype, entity, perms) ==
    LET acl == GetMyACLByName(ws, caller, name) IN
    IF IsNil(acl) THEN Ret("err", "false", ws)
    ELSE LET id == ResolveEntity(ws, entrytype, entity) IN
    IF id = NilPtr THEN Ret("err", "false", ws)
    ELSE IF FindEntry(acl.Permissions, entrytype, id) # 0
    THEN Ret("err", "false", ws)                      \* entity already in acl
    ELSE LET ent == [ID |-> id, Entity |-> <<entity>>,
                     EntryType |-> entrytype, Permissions |-> perms]
         IN Ret("ok", "true",
                WriteACL(ws, [acl EXCEPT !.Permissions = Append(@, ent)]))

\* EditACLEntry(name, entrytype, entity, perms)
EditACLEntry(ws, caller, name, entrytype, entity, perms) ==
    LET acl == GetMyACLByName(ws, caller, name) IN
    IF IsNil(acl) THEN Ret("err", "false", ws)
    ELSE LET id == ResolveEntity(ws, entrytype, entity) IN
    IF id = NilPtr THEN Ret("err", "false", ws)
    ELSE LET i == FindEntry(acl.Permissions, entrytype, id) IN
    IF i = 0 THEN Ret("err", "false", ws)             \* entity not in ACL
    ELSE Ret("ok", "true",
             WriteACL(ws, [acl EXCEPT !.Permissions[i].Permissions = perms]))

\* DeleteMyACL(name)
DeleteMyACL(ws, caller, name) ==
    LET acl == GetMyACLByName(ws, caller, name) IN
    IF IsNil(acl) THEN Ret("err", "false", ws)
    ELSE Ret("ok", "true", DeleteACL(ws, acl.ID))

\* DeleteACLByID(id)
DeleteACLByID(ws, caller, id) ==
    LET me == GetMyUser(ws, caller)
        acl == GetACLByID(ws, id)
    IN IF me = NilPtr THEN Ret("err", "false", ws)
       ELSE IF IsNil(acl) THEN Ret("err", "false", ws)
       ELSE IF acl.Owner # me THEN Ret("err", "false", ws)   \* permission denied
       ELSE Ret("ok", "true", DeleteACL(ws, id))

\* SetBucketACLFromTemplate(bktname, aclname)
SetBucketACLFromTemplate(ws, caller, bktname, aclname) ==
    LET me == GetMyUser(ws, caller)
        bkt == GetBucket(ws, bktname)
    IN IF me = NilPtr THEN Ret("err", "false", ws)
       ELSE IF IsNil(bkt) THEN Ret("err", "false", ws)
       ELSE IF bkt.Owner # me THEN Ret("err", "false", ws)   \* permission denied
       ELSE LET tacl == GetMyACLByName(ws, caller, aclname) IN
            IF IsNil(tacl) THEN Ret("err", "false", ws)
            ELSE Ret("ok", "true",
                     [ws EXCEPT !.buckets[bktname].Permissions = templatetoacl(tacl)])

---------------------------------------------------------------------------
(* Sub-user links                                                         *)

RECURSIVE FindSubUser(_, _, _)
\* the position of the first link with that UID from position i on, 0 if none
FindSubUser(links, uid, i) ==
    IF i > Len(links) THEN 0
    ELSE IF links[i].UID = uid THEN i
    ELSE FindSubUser(links, uid, i + 1)

\* SetSubUserPermission(uid, bucket, perms): the caller's first link with that
\* UID gets perms for the bucket (the link's map is not nil), and the caller's
\* document is put
SetSubUserPermission(ws, caller, uid, bucket, perms) ==
    LET me == GetMyUser(ws, caller) IN
    IF me = NilPtr THEN Ret("err", "false", ws)
    ELSE LET i == FindSubUser(ws.users[me].SubUsers, uid, 1) IN
         IF i = 0 THEN Ret("err", "false", ws)        \* unknown subuser
         ELSE Ret("ok", "true",
                  [ws EXCEPT !.users[me].SubUsers[i].Perms =
                                 MapPut(@, bucket, perms)])

---------------------------------------------------------------------------
(* The secondary indexes                                                  *)

\* getindex(owner, field, bucket): the Index document at (owner, bucket, field)
getindex(ws, owner, field, bucket) ==
    IF <<owner, bucket, field>> \in DOMAIN ws.indexes
    THEN ws.indexes[<<owner, bucket, field>>]
    ELSE NoDoc

\* CreateIndex without the test for an index of the caller on the field
CreateIndex_Unchecked(ws, caller, field, bucket) ==
    IF GetMyUser(ws, caller) = NilPtr THEN Ret("err", "false", ws)
    ELSE Ret("ok", "true",
             [ws EXCEPT !.indexes =
                           MapPut(@, <<GetMyUser(ws, caller), bucket, field>>,
                                  [Type |-> "Index", ID |-> NewID(ws),
                                   Owner |-> GetMyUser(ws, caller),
                                   Bucket |-> bucket, Field |-> field]),
                        !.nextid = NewID(ws)])

\* CreateIndex(field, bucket)
CreateIndex(ws, caller, field, bucket) ==
    LET me == GetMyUser(ws, caller) IN
    IF me = NilPtr THEN Ret("err", "false", ws)
    ELSE IF ~IsNil(getindex(ws, me, field, bucket))
    THEN Ret("err", "false", ws)                      \* index exists
    ELSE LET idx == [Type |-> "Index", ID |-> NewID(ws), Owner |-> me,
                     Bucket |-> bucket, Field |-> field]
         IN Ret("ok", "true",
                [ws EXCEPT !.indexes = MapPut(@, <<me, bucket, field>>, idx),
                           !.nextid = NewID(ws)])

\* addobjecttoindex: PutState of the entry (indexid, value, objectid)
addobjecttoindex(ws, indexid, value, objectid) ==
    [ws EXCEPT !.entries = @ \cup {<<indexid, value, objectid>>}]

\* removeobjectfromindex: DelState of the entry (indexid, value, objectid)
removeobjectfromindex(ws, indexid, value, objectid) ==
    [ws EXCEPT !.entries = @ \ {<<indexid, value, objectid>>}]

\* the order of the object keys in a scan of the store
ObjectKeyOrder == <<"a", "b">>

\* getindexiterator(indexid, value): the object keys of the entries with that
\* index ID and value, in key order
getindexiterator(ws, indexid, value) ==
    SelectSeq(ObjectKeyOrder, LAMBDA k : <<indexid, value, k>> \in ws.entries)

\* the fields of a metadata map for which the user "owner" has an index on
\* the bucket
IndexedFields(ws, owner, bucket, metadata) ==
    {k \in DOMAIN metadata : ~IsNil(getindex(ws, owner, k, bucket))}

\* for k, v := range metadata { idx, _ := getindex(owner, k, bucket);
\*     if idx != nil { removeobjectfromindex(idx.ID, v, key) } }
RemoveFromIndexes(ws, owner, bucket, metadata, key) ==
    [ws EXCEPT !.entries =
        @ \ {<<getindex(ws, owner, k, bucket).ID, metadata[k], key>> :
                k \in IndexedFields(ws, owner, bucket, metadata)}]

\* for k, v := range metadata { idx, _ := getindex(owner, k, bucket);
\*     if idx != nil { addobjecttoindex(idx.ID, v, key) } }
AddToIndexes(ws, owner, bucket, metadata, key) ==
    [ws EXCEPT !.entries =
        @ \cup {<<getindex(ws, owner, k, bucket).ID, metadata[k], key>> :
                  k \in IndexedFields(ws, owner, bucket, metadata)}]

---------------------------------------------------------------------------
(* Objects                                                                *)

ObjectFlag_IndexOnly == 1

\* if len(obj.Permissions) != 0 { ok = testaclaccess(obj.Permissions, ...) }
\* else if len(bkt.Permissions) != 0 { ok = testaclaccess(bkt.Permissions, ...) }
AccessVia(ws, objacl, bktacl, uid, bucket, access) ==
    IF Len(objacl) # 0
    THEN testaclaccess(ws.users, ws.groups, ws.engine, objacl, uid, bucket, access)
    ELSE IF Len(bktacl) # 0
    THEN testaclaccess(ws.users, ws.groups, ws.engine, bktacl, uid, bucket, access)
    ELSE "denied"

\* GetObjectByPath, the answer of the Read test in hand
GetObjectByPath_tested(ws, obj, ok) ==
    IF ok = "panic" THEN Ret("panic", NoDoc, ws)
    ELSE IF ok = "denied" THEN Ret("err", NoDoc, ws)  \* permission denied
    ELSE Ret("ok", obj, ws)

\* GetObjectByPath, the object document in hand
GetObjectByPath_found(ws, caller, me, bucket, obj, bkt) ==
    IF IsNil(bkt) THEN Ret("err", NoDoc, ws)
    ELSE IF obj.Owner = me THEN Ret("ok", obj, ws)
    ELSE GetObjectByPath_tested(ws, obj,
            AccessVia(ws, obj.Permissions, bkt.Permissions, caller, bucket,
                      ACL_AccessType_Read))

\* GetObjectByPath(bucket, key)
GetObjectByPath(ws, caller, bucket, key) ==
    IF GetMyUser(ws, caller) = NilPtr THEN Ret("err", NoDoc, ws)
    ELSE IF <<bucket, key>> \notin DOMAIN ws.objects
    THEN Ret("err", NoDoc, ws)                        \* unknown object
    ELSE GetObjectByPath_found(ws, caller, GetMyUser(ws, caller), bucket,
                               ws.objects[<<bucket, key>>], GetBucket(ws, bucket))

\* createobject, all checks passed: the object is built and stored, then the
\* entries of the caller's indexes are added
createobject_store(ws, me, bkt, acl, key, metadata, flags) ==
    IF IsNil(acl) THEN Ret("panic", "", ws)           \* templatetoacl(nil)
    ELSE Ret("ok", "",
             AddToIndexes(
                [ws EXCEPT !.objects =
                              MapPut(@, <<bkt.Name, key>>,
                                     [Type |-> "Object", ID |-> NewID(ws),
                                      Bucket |-> bkt.Name, Key |-> key,
                                      Owner |-> me,
                                      Permissions |-> templatetoacl(acl),
                                      Metadata |-> metadata, Flags |-> flags]),
                           !.nextid = NewID(ws)],
                me, bkt.Name, metadata, key))

\* createobject, the answer of the Create test in hand
createobject_tested(ws, me, bkt, acl, key, metadata, flags, create) ==
    IF create = "panic" THEN Ret("panic", "", ws)
    ELSE IF create = "denied" THEN Ret("err", "", ws) \* permission denied
    ELSE createobject_store(ws, me, bkt, acl, key, metadata, flags)

\* createobject from "if !ok && bkt.Owner != myuser.ID" on; ok tells whether
\* the Overwrite test has granted the call
createobject_create(ws, caller, me, bkt, acl, key, metadata, flags, ok) ==
    IF ok \/ bkt.Owner = me
    THEN createobject_store(ws, me, bkt, acl, key, metadata, flags)
    ELSE createobject_tested(ws, me, bkt, acl, key, metadata, flags,
            IF Len(bkt.Permissions) # 0
            THEN testaclaccess(ws.users, ws.groups, ws.engine, bkt.Permissions,
                               caller, bkt.Name, ACL_AccessType_Create)
            ELSE "denied")

\* createobject on an existing object of another owner, the answer of the
\* Overwrite test in hand
createobject_overwrite(ws, caller, me, bkt, acl, key, metadata, flags, tmp, over) ==
    IF over = "panic" THEN Ret("panic", "", ws)
    ELSE IF over = "denied" THEN Ret("err", "", ws)   \* permission denied
    ELSE createobject_create(RemoveFromIndexes(ws, me, bkt.Name, tmp.Metadata, key),
                             caller, me, bkt, acl, key, metadata, flags, TRUE)

\* createobject from "tmp, _ := s.GetObjectByPath(ctx, bucket, key)" on
createobject_existing(ws, caller, me, bkt, acl, key, metadata, flags, overwrite, got) ==
    IF got.outcome = "panic" THEN Ret("panic", "", ws)
    ELSE IF got.outcome # "ok"                        \* tmp == nil
    THEN createobject_create(ws, caller, me, bkt, acl, key, metadata, flags, FALSE)
    ELSE IF ~overwrite THEN Ret("err", "", ws)        \* object already exists
    ELSE IF got.rv.Owner = me
    THEN createobject_create(RemoveFromIndexes(ws, me, bkt.Name, got.rv.Metadata, key),
                             caller, me, bkt, acl, key, metadata, flags, FALSE)
    ELSE createobject_overwrite(ws, caller, me, bkt, acl, key, metadata, flags,
            got.rv,
            AccessVia(ws, got.rv.Permissions, bkt.Permissions, caller, bkt.Name,
                      ACL_AccessType_Overwrite))

\* createobject, the template looked up
createobject_acl(ws, caller, me, bkt, acl, aclTemplate, key, metadata, flags, overwrite) ==
    IF aclTemplate # "" /\ IsNil(acl) THEN Ret("err", "", ws)
    ELSE createobject_existing(ws, caller, me, bkt, acl, key, metadata, flags,
                               overwrite,
                               GetObjectByPath(ws, caller, bkt.Name, key))

\* createobject, the caller and the bucket looked up
createobject_resolved(ws, caller, me, bkt, key, metadata, aclTemplate, flags, overwrite) ==
    IF me = NilPtr THEN Ret("err", "", ws)
    ELSE IF IsNil(bkt) THEN Ret("err", "", ws)
    ELSE createobject_acl(ws, caller, me, bkt,
            IF aclTemplate # "" THEN getuseraclbyname(ws, me, aclTemplate)
            ELSE NoDoc,
            aclTemplate, key, metadata, flags, overwrite)

\* createobject(bucket, key, ..., metadata, ..., aclTemplate, flags, overwrite)
createobject(ws, caller, bucket, key, metadata, aclTemplate, flags, overwrite) ==
    createobject_resolved(ws, caller, GetMyUser(ws, caller), GetBucket(ws, bucket),
                          key, metadata, aclTemplate, flags, overwrite)

\* a delete record that names the object's owner as the deleter
RemoveObject_record_OwnerDeletes(ws, me, bucket, obj) ==
    [ws EXCEPT !.deleted =
        MapPut(@, <<bucket, obj.ID>>,
               [Type |-> "DeletedObject", ID |-> obj.ID,
                Bucket |-> obj.Bucket, Key |-> obj.Key,
                Owner |-> obj.Owner, Deleter |-> obj.Owner,
                Permissions |-> obj.Permissions,
                Metadata |-> obj.Metadata, Flags |-> obj.Flags])]

\* RemoveObject from "dr := DeleteRecord {...}" to the PutState of the record:
\* the world state with the delete record put and the object still live
RemoveObject_record(ws, me, bucket, obj) ==
    [ws EXCEPT !.deleted =
        MapPut(@, <<bucket, obj.ID>>,
               [Type |-> "DeletedObject", ID |-> obj.ID,
                Bucket |-> obj.Bucket, Key |-> obj.Key,
                Owner |-> obj.Owner, Deleter |-> me,
                Permissions |-> obj.Permissions,
                Metadata |-> obj.Metadata, Flags |-> obj.Flags])]

\* RemoveObject, the Delete test passed: the delete record is put, then the
\* object deleted, the entries of the caller's indexes removed and the blob
\* removed
RemoveObject_delete(ws, me, bucket, key, obj, s3ok) ==
    Ret("ok",
        IF BitAnd(obj.Flags, ObjectFlag_IndexOnly) # 0 \/ s3ok
        THEN "true" ELSE "",                          \* return "", nil
        RemoveFromIndexes(
           [RemoveObject_record(ws, me, bucket, obj)
               EXCEPT !.objects = MapDel(@, <<bucket, key>>)],
           me, bucket, obj.Metadata, key))

\* RemoveObject, the answer of the Delete test in hand
RemoveObject_tested(ws, me, bucket, key, obj, s3ok, ok) ==
    IF ok = "panic" THEN Ret("panic", "", ws)
    ELSE IF ok = "denied" THEN Ret("err", "", ws)     \* permission denied
    ELSE RemoveObject_delete(ws, me, bucket, key, obj, s3ok)

\* RemoveObject from "obj, err := s.GetObjectByPath(ctx, bucket, key)" on
RemoveObject_found(ws, caller, me, bkt, bucket, key, s3ok, got) ==
    IF got.outcome # "ok" THEN Ret(got.outcome, "", ws)
    ELSE IF IsNil(bkt) THEN Ret("err", "", ws)
    ELSE IF got.rv.Owner = me
    THEN RemoveObject_delete(ws, me, bucket, key, got.rv, s3ok)
    ELSE RemoveObject_tested(ws, me, bucket, key, got.rv, s3ok,
            AccessVia(ws, got.rv.Permissions, bkt.Permissions, caller, bucket,
                      ACL_AccessType_Delete))

\* RemoveObject(bucket, key); s3ok tells whether the blob store's RemoveObject
\* succeeds
RemoveObject(ws, caller, bucket, key, s3ok) ==
    IF GetMyUser(ws, caller) = NilPtr THEN Ret("err", "", ws)
    ELSE RemoveObject_found(ws, caller, GetMyUser(ws, caller),
                            GetBucket(ws, bucket), bucket, key, s3ok,
                            GetObjectByPath(ws, caller, bucket, key))

\* GetDeleteRecord with the test "obj.Owner != myuser.ID" made against the
\* record's Deleter
GetDeleteRecord_DeleterMayRead(ws, caller, bucket, id) ==
    IF GetMyUser(ws, caller) = NilPtr THEN Ret("err", "unknown user", ws)
    ELSE IF <<bucket, id>> \notin DOMAIN ws.deleted
    THEN Ret("err", "unknown delete record", ws)
    ELSE IF ws.deleted[<<bucket, id>>].Deleter # GetMyUser(ws, caller)
    THEN Ret("err", "permission denied", ws)
    ELSE Ret("ok", ws.deleted[<<bucket, id>>], ws)

\* GetDeleteRecord(bucket, id): the record, or the message of the error
GetDeleteRecord(ws, caller, bucket, id) ==
    IF GetMyUser(ws, caller) = NilPtr THEN Ret("err", "unknown user", ws)
    ELSE IF <<bucket, id>> \notin DOMAIN ws.deleted
    THEN Ret("err", "unknown delete record", ws)
    ELSE IF ws.deleted[<<bucket, id>>].Owner # GetMyUser(ws, caller)
    THEN Ret("err", "permission denied", ws)
    ELSE Ret("ok", ws.deleted[<<bucket, id>>], ws)

\* RemoveDeleteRecord, the answer of GetDeleteRecord in hand
RemoveDeleteRecord_found(ws, me, bucket, id, got) ==
    IF got.outcome # "ok" THEN Ret("err", got.rv, ws)
    ELSE IF got.rv.Owner # me THEN Ret("err", "permission denied", ws)
    ELSE Ret("ok", "true", [ws EXCEPT !.deleted = MapDel(@, <<bucket, id>>)])

\* RemoveDeleteRecord(bucket, id)
RemoveDeleteRecord(ws, caller, bucket, id) ==
    IF GetMyUser(ws, caller) = NilPtr THEN Ret("err", "unknown user", ws)
    ELSE RemoveDeleteRecord_found(ws, GetMyUser(ws, caller), bucket, id,
                                  GetDeleteRecord(ws, caller, bucket, id))

RECURSIVE ResolveHits(_, _, _, _, _)
\* the loop of QueryObjectsByIndex over the hits, from hit i on: the outcome
\* of the first GetObjectByPath that does not return an object, "ok" if none
ResolveHits(ws, caller, bucket, hits, i) ==
    IF i > Len(hits) THEN "ok"
    ELSE IF GetObjectByPath(ws, caller, bucket, hits[i]).outcome # "ok"
    THEN GetObjectByPath(ws, caller, bucket, hits[i]).outcome
    ELSE ResolveHits(ws, caller, bucket, hits, i + 1)

\* QueryObjectsByIndex, the hits of the scan and the outcome of resolving
\* them in hand
QueryObjectsByIndex_listing(ws, hits, res) ==
    IF res = "ok" THEN Ret("ok", hits, ws) ELSE Ret(res, <<>>, ws)

\* QueryObjectsByIndex, the answer of the List test in hand
QueryObjectsByIndex_tested(ws, caller, bucket, value, idx, ok) ==
    IF ok = "panic" THEN Ret("panic", <<>>, ws)
    ELSE IF ok = "denied" THEN Ret("err", <<>>, ws)   \* permission denied
    ELSE IF IsNil(idx) THEN Ret("err", <<>>, ws)      \* unknown index key
    ELSE QueryObjectsByIndex_listing(ws, getindexiterator(ws, idx.ID, value),
            ResolveHits(ws, caller, bucket,
                        getindexiterator(ws, idx.ID, value), 1))

\* QueryObjectsByIndex, the caller and the bucket looked up
QueryObjectsByIndex_resolved(ws, caller, me, bkt, bucket, field, value) ==
    IF me = NilPtr THEN Ret("err", <<>>, ws)
    ELSE IF IsNil(bkt) THEN Ret("err", <<>>, ws)
    ELSE QueryObjectsByIndex_tested(ws, caller, bucket, value,
            getindex(ws, me, field, bucket),
            IF bkt.Owner = me THEN "granted"
            ELSE IF Len(bkt.Permissions) # 0
            THEN testaclaccess(ws.users, ws.groups, ws.engine, bkt.Permissions,
                               caller, bucket, ACL_AccessType_List)
            ELSE "denied")

\* QueryObjectsByIndex(bucket, key, value, ...): the keys of the listing
QueryObjectsByIndex(ws, caller, bucket, field, value) ==
    QueryObjectsByIndex_resolved(ws, caller, GetMyUser(ws, caller),
                                 GetBucket(ws, bucket), bucket, field, value)

---------------------------------------------------------------------------
(* The hierarchies the walk specification draws                           *)

Bkts == {"docs", "pics"}

\* a value standing for "the map has no such key" when a link's map is drawn
Absent == 0 - 1

\* the Perms map of a link with exact grant e for "docs" and wildcard grant w
MkPerms(e, w) ==
    [k \in (IF e = Absent THEN {} ELSE {"docs"}) \cup
           (IF w = Absent THEN {} ELSE {Wildcard}) |->
        IF k = "docs" THEN e ELSE w]

\* SubUser link maps: exact grants 0, Create+Read, Create+Overwrite, and a
\* grant with no bit below 0x100; wildcard grants 0, Read, all
ULinkPerms == {MkPerms(e, w) : e \in {Absent, 0, 6, 12, 256}, w \in {Absent, 0, 2, 255}}

\* SubGroup link maps
GLinkPerms == {MkPerms(e, w) : e \in {Absent, 0, 2, 4}, w \in {Absent, 6}}

UName == <<"U0", "U1", "U2", "U3", "U4">>

UIDName == <<"alice", "bob", "carol", "dave", "erin">>

ChainIds == {UName[i + 1] : i \in 0..MaxChain}

ChainIndex(id) == CHOOSE i \in 0..MaxChain : UName[i + 1] = id

MkUser(id, uid, sysperms, parent, subusers) ==
    [Type |-> "User", ID |-> id, UID |-> uid, SysPerms |-> sysperms,
     Parent |-> parent, SubUsers |-> subusers]

MkSubUser(id, uid, perms) == [ID |-> id, UID |-> uid, Perms |-> perms]

\* The chain U0 <- U1 <- ... <- U_MaxChain, f[i] the map of the link of U_i in
\* U_(i-1); the root also holds a link to a second sub-user "UX", listed first.
ChainUsers(f) ==
    [id \in ChainIds \cup {"UX"} |->
        IF id = "UX"
        THEN MkUser("UX", "xavier", 0, "U0", <<>>)
        ELSE LET i == ChainIndex(id) IN
             MkUser(id, UIDName[i + 1], 0,
                    IF i = 0 THEN "" ELSE UName[i],
                    (IF i = 0
                     THEN <<MkSubUser("UX", "xavier", MkPerms(255, Absent))>>
                     ELSE <<>>) \o
                    (IF i < MaxChain
                     THEN <<MkSubUser(UName[i + 2], UIDName[i + 2], f[i + 1])>>
                     ELSE <<>>))]

MkGroup(id, owner, parent, members, subgroups) ==
    [Type |-> "Group", ID |-> id, Name |-> id, Owner |-> owner,
     Parent |-> parent, Users |-> members, SubGroups |-> subgroups]

MkSubGroup(id, perms) == [ID |-> id, Name |-> id, Perms |-> perms]

\* The groups R <- A <- {G1, G2}: G1 and G2 both descend from A; pa is the map
\* of A's link in R, p1 and p2 those of G1's and G2's links in A; the user
\* "P" is a member of the groups in mem.
DiamondGroups(pa, p1, p2, mem) ==
    LET members(g) == IF g \in mem THEN <<"P">> ELSE <<>> IN
    [id \in {"R", "A", "G1", "G2"} |->
        CASE id = "R"  -> MkGroup("R", "U0", "", members("R"),
                                  <<MkSubGroup("A", pa)>>)
          [] id = "A"  -> MkGroup("A", "U0", "R", members("A"),
                                  <<MkSubGroup("G1", p1), MkSubGroup("G2", p2)>>)
          [] id = "G1" -> MkGroup("G1", "U0", "A", members("G1"), <<>>)
          [] id = "G2" -> MkGroup("G2", "U0", "A", members("G2"), <<>>)]

\* the sequences that list every element of S once
Orderings(S) ==
    {s \in [1..Cardinality(S) -> S] : \A i, j \in 1..Cardinality(S) : s[i] = s[j] => i = j}

\* the groups a user is a direct member of (the documents getusergroups selects)
MemberGroups(gs, id) ==
    {g \in DOMAIN gs : \E i \in 1..Len(gs[g].Users) : gs[g].Users[i] = id}

NoOp == [op |-> "none"]

NoTest == [status |-> "idle"]

---------------------------------------------------------------------------
(* The walk specification: a hierarchy is drawn, then one walk runs       *)

InitWalk ==
    /\ \/ /\ \E f \in [1..MaxChain -> ULinkPerms] : users = ChainUsers(f)
          /\ groups = EmptyMap
       \/ /\ users = EmptyMap
          /\ \E pa \in {MkPerms(Absent, Absent), MkPerms(2, Absent), MkPerms(0, 6)},
                p1 \in GLinkPerms, p2 \in GLinkPerms,
                mem \in {{"G1"}, {"G1", "G2"}, {"A"}, {"G1", "A"}} :
                groups = DiamondGroups(pa, p1, p2, mem)
    /\ acls = EmptyMap /\ buckets = EmptyMap /\ objects = EmptyMap
    /\ deleted = EmptyMap
    /\ indexes = EmptyMap /\ entries = {} /\ nextid = 0
    /\ engine = "lenient" /\ last = NoOp /\ test = NoTest
    /\ walk = IdleWalk

\* GatherUserInheritedPerms(uid, bucket) calls gatheruperms
StartUserWalk ==
    /\ walk.status = "idle"
    /\ \E uid \in DOMAIN users, b \in Bkts : walk' = gatheruperms_begin(uid, b)
    /\ UNCHANGED <<store, engine, last, test>>

UserWalkIter ==
    /\ walk.fn = "gatheruperms" /\ walk.status = "running"
    /\ walk' = gatheruperms_iter(users, walk)
    /\ UNCHANGED <<store, engine, last, test>>

\* GatherGroupPermsForUserByID("P", bucket) calls gatherallgperms with the
\* member groups in the order the query returns them
StartGroupWalk ==
    /\ walk.status = "idle"
    /\ \E gl \in Orderings(MemberGroups(groups, "P")), b \in Bkts :
          /\ Len(gl) > 0
          /\ walk' = gatherallgperms_begin(gl, b)
    /\ UNCHANGED <<store, engine, last, test>>

GroupWalkIter ==
    /\ walk.fn = "gatherallgperms" /\ walk.status = "running"
    /\ walk' = gatherallgperms_iter(groups, walk)
    /\ UNCHANGED <<store, engine, last, test>>

NextWalk == StartUserWalk \/ UserWalkIter \/ StartGroupWalk \/ GroupWalkIter

SpecWalk == InitWalk /\ [][NextWalk]_vars

---------------------------------------------------------------------------
(* Claims about the walks, checked under SpecWalk                         *)

HasLink(links, id) == \E i \in 1..Len(links) : links[i].ID = id

\* the permission map of the link to id among links
LinkPermsOf(links, id) == links[CHOOSE i \in 1..Len(links) : links[i].ID = id].Perms

\* The grant section 4.3 of the specification prescribes for a link: the exact
\* grant when there is one and it is not zero, else the wildcard grant, else 0.
SpecGrant(pm, b) ==
    IF b \in DOMAIN pm /\ pm[b] # 0 THEN pm[b]
    ELSE IF Wildcard \in DOMAIN pm THEN pm[Wildcard]
    ELSE 0

RECURSIVE SpecEffective(_, _, _, _)
\* The effective mask the specification prescribes for the root above user id:
\* eff ANDed with the grant of every link from id up to the root, 0 once a link
\* yields zero.
SpecEffective(us, id, b, eff) ==
    IF us[id].Parent = "" THEN eff
    ELSE LET g == SpecGrant(LinkPermsOf(us[us[id].Parent].SubUsers, id), b)
             a == BitAnd(eff, g)
         IN IF a = 0 THEN 0 ELSE SpecEffective(us, us[id].Parent, b, a)

RECURSIVE RootOf(_, _)
RootOf(us, id) == IF us[id].Parent = "" THEN id ELSE RootOf(us, us[id].Parent)

UWalkOver == walk.fn = "gatheruperms" /\ walk.status \notin {"idle", "running"}

GWalkOver == walk.fn = "gatherallgperms" /\ walk.status \notin {"idle", "running"}

\* C1 (as claimed): for every chain U_n, ..., U_0 and bucket b, gatheruperms(U_n, b)
\* returns a map that holds for the most distant ancestor U_0 exactly 0xFF ANDed
\* with the applicable grant of every link of the chain, and holds no entry for
\* U_0 once a link of the chain yields zero.
C1_AncestorGetsAndOfGrants ==
    UWalkOver =>
        LET root == RootOf(users, walk.start)
            eff == SpecEffective(users, walk.start, walk.bucket, FullPerms)
        IN /\ walk.status = "returned"
           /\ eff # 0 => root \in DOMAIN walk.rv /\ walk.rv[root] = eff
           /\ eff = 0 => root \notin DOMAIN walk.rv

RECURSIVE Ancestors(_, _)
\* the proper ancestors of user id, nearest first
Ancestors(us, id) ==
    IF us[id].Parent = "" THEN <<>> ELSE <<us[id].Parent>> \o Ancestors(us, us[id].Parent)

RECURSIVE SpecStopsAfter(_, _, _, _)
\* The number of ancestors the walk of the specification visits from user id
\* with effective mask eff: it stops when the root is reached, when a level has
\* no grant, or when the mask becomes zero.
SpecStopsAfter(us, id, b, eff) ==
    IF us[id].Parent = "" THEN 0
    ELSE LET g == SpecGrant(LinkPermsOf(us[us[id].Parent].SubUsers, id), b)
             a == BitAnd(eff, g)
         IN IF a = 0 THEN 1 ELSE 1 + SpecStopsAfter(us, us[id].Parent, b, a)

\* C2 (as claimed): on every well-formed hierarchy gatheruperms terminates with a
\* result map instead of faulting; it visits the ancestors parent by parent,
\* each at most once, and stops exactly when a level has no grant, when the
\* accumulated mask is zero, or at the root.
C2_WalkReturnsMap ==
    UWalkOver =>
        /\ walk.status = "returned"
        /\ walk.visited =
              SubSeq(Ancestors(users, walk.start), 1,
                     SpecStopsAfter(users, walk.start, walk.bucket, FullPerms))

\* the walk of gatheruperms is about to process the link of walk.cur in its parent
AtULink ==
    /\ walk.fn = "gatheruperms" /\ walk.status = "running"
    /\ walk.cur # NilPtr
    /\ users[walk.cur].Parent # "" /\ walk.lastperms # 0
    /\ users[walk.cur].Parent \in DOMAIN users
    /\ HasLink(users[users[walk.cur].Parent].SubUsers, walk.cur)

ULinkPermsAtCur == LinkPermsOf(users[users[walk.cur].Parent].SubUsers, walk.cur)

\* the walk of gatherallgperms is about to process the link of walk.cur in its parent
AtGLink ==
    /\ walk.fn = "gatherallgperms" /\ walk.status = "running" /\ walk.pc = "walk"
    /\ walk.cur # NilPtr
    /\ groups[walk.cur].Parent # "" /\ walk.lastperms # 0
    /\ groups[walk.cur].Parent \in DOMAIN groups
    /\ HasLink(groups[groups[walk.cur].Parent].SubGroups, walk.cur)

GLinkPermsAtCur == LinkPermsOf(groups[groups[walk.cur].Parent].SubGroups, walk.cur)

ExactNonZero(pm, b) == b \in DOMAIN pm /\ pm[b] # 0

WildNonZero(pm) == Wildcard \in DOMAIN pm /\ pm[Wildcard] # 0

\* C3: at each link gatheruperms visits for bucket b, the grant ANDed into the
\* effective mask is the link's exact entry for b when that entry exists and is
\* not zero; the "*" entry is used only when the exact entry is absent or zero;
\* when neither is a non-zero grant the walk stops (it returns the map as it is).
C3_ExactBeforeWildcard ==
    [][AtULink =>
         LET pm == ULinkPermsAtCur
             b == walk.bucket
         IN /\ ExactNonZero(pm, b) =>
                  walk'.lastperms = BitAnd(walk.lastperms, pm[b])
            /\ ~ExactNonZero(pm, b) /\ WildNonZero(pm) =>
                  walk'.lastperms = BitAnd(walk.lastperms, pm[Wildcard])
            /\ ~ExactNonZero(pm, b) /\ ~WildNonZero(pm) =>
                  /\ walk'.status = "returned"
                  /\ walk'.rv = walk.rv
                  /\ walk'.lastperms = walk.lastperms]_vars

\* C3's case: the walk has visited one link whose exact grant for the bucket was
\* absent or zero and whose wildcard grant was used and recorded.
C3_Witness ==
    /\ walk.fn = "gatheruperms" /\ Len(walk.visited) = 1
    /\ LET pm == LinkPermsOf(users[walk.visited[1]].SubUsers, walk.start) IN
          /\ ~ExactNonZero(pm, walk.bucket) /\ WildNonZero(pm)
          /\ walk.visited[1] \in DOMAIN walk.rv
          /\ walk.rv[walk.visited[1]] = BitAnd(FullPerms, pm[Wildcard])

ExactZero(pm, b) == b \in DOMAIN pm /\ pm[b] = 0

C5_MultiPathMaximum ==
    (/\ GWalkOver
     /\ \A i \in 1..Len(walk.glist) : walk.glist[i] \in {"G1", "G2"}
     /\ Len(walk.glist) = 2) =>
        LET r(g) == BitAnd(FullPerms,
                           SpecGrant(LinkPermsOf(groups["A"].SubGroups, g), walk.bucket))
            r1 == IF r("G1") < r("G2") THEN r("G1") ELSE r("G2")
            r2 == IF r("G1") < r("G2") THEN r("G2") ELSE r("G1")
        IN (0 < r1 /\ r1 < r2) =>
              /\ walk.status = "returned"
              /\ "A" \in DOMAIN walk.rv /\ walk.rv["A"] = r2

---------------------------------------------------------------------------
(* The access-test specification: a hierarchy, an ACL and a request are   *)
(* drawn, then testaclaccess runs                                         *)

\* users U0 <- U1 (link map p) and the root user P
AclUsers(p) ==
    [id \in {"U0", "U1", "P"} |->
        CASE id = "U0" -> MkUser("U0", "alice", 0, "", <<MkSubUser("U1", "bob", p)>>)
          [] id = "U1" -> MkUser("U1", "bob", 0, "U0", <<>>)
          [] id = "P"  -> MkUser("P", "pat", 0, "", <<>>)]

MkEntry(id, kind, bits) == [ID |-> id, EntryType |-> kind, Permissions |-> bits]

\* the entries the ACLs of the access-test specification are made of
AclEntries ==
    {MkEntry("P", ACL_EntryType_User, 3), MkEntry("U0", ACL_EntryType_User, 6),
     MkEntry("A", ACL_EntryType_Group, 12), MkEntry("G1", ACL_EntryType_Group, 28),
     MkEntry("P", ACL_EntryType_Group, 31), MkEntry("G2", ACL_EntryType_Group, 2),
     MkEntry("R", ACL_EntryType_Group, 12)}

\* the ACLs of at most two entries
AclChoices ==
    {<<>>} \cup {<<e>> : e \in AclEntries} \cup {<<e, f>> : e \in AclEntries, f \in AclEntries}

InitAcl ==
    /\ \E p \in {MkPerms(Absent, Absent), MkPerms(6, Absent)} : users = AclUsers(p)
    /\ \E p1 \in {MkPerms(8, Absent), MkPerms(Absent, Absent)},
          mem \in {{}, {"G1"}, {"R"}, {"G2", "R"}} :
          groups = DiamondGroups(MkPerms(Absent, Absent), p1, MkPerms(4, Absent), mem)
    /\ engine \in {"strict", "lenient"}
    /\ acls = EmptyMap /\ buckets = EmptyMap /\ objects = EmptyMap
    /\ deleted = EmptyMap
    /\ indexes = EmptyMap /\ entries = {} /\ nextid = 0
    /\ last = NoOp /\ walk = IdleWalk
    /\ test = NoTest

\* TestMyACL / an access check of the coordinator calls testaclaccess
TestAccess ==
    /\ test.status = "idle"
    /\ \E acl \in AclChoices, uid \in {"bob", "pat", "mallory"}, b \in Bkts,
          access \in 0..(ACL_AccessType_List + 1) :
          test' = [status |-> "done", acl |-> acl, uid |-> uid, bucket |-> b,
                   access |-> access,
                   res |-> testaclaccess(users, groups, engine, acl, uid, b, access)]
    /\ UNCHANGED <<store, engine, last, walk>>

\* the caller forgets the answer
TestForget ==
    /\ test.status = "done"
    /\ test' = NoTest
    /\ UNCHANGED <<store, engine, last, walk>>

NextAcl == TestAccess \/ TestForget

SpecAcl == InitAcl /\ [][NextAcl]_vars

---------------------------------------------------------------------------
(* Claims about the access test, checked under SpecAcl                    *)

\* the permission bit section 4.4 of the specification gives each access kind
SpecAccessBit(k) ==
    CASE k = ACL_AccessType_Read      -> ACL_Perms_ReadObject
      [] k = ACL_AccessType_Create    -> ACL_Perms_CreateObject
      [] k = ACL_AccessType_Overwrite -> ACL_Perms_OverwriteObject
      [] k = ACL_AccessType_Delete    -> ACL_Perms_DeleteObject
      [] k = ACL_AccessType_List      -> ACL_Perms_ListObjects
      [] OTHER                        -> 0

\* the caller's inherited-user map, as the aggregator returns it (empty when
\* the caller is unknown or the aggregator returns no map)
TestUserMap ==
    LET user == GetUserByUID(users, test.uid) IN
    IF user = NilPtr THEN EmptyMap
    ELSE LET w == gatheruperms(users, user, test.bucket) IN
         IF w.status = "returned" THEN w.rv ELSE EmptyMap

\* the caller's inherited-group map, as the aggregator returns it
TestGroupMap ==
    LET user == GetUserByUID(users, test.uid) IN
    IF user = NilPtr THEN EmptyMap
    ELSE LET w == GatherGroupPermsForUserByID(groups, engine, user, test.bucket) IN
         IF w.status = "returned" THEN w.rv ELSE EmptyMap

\* the map an entry is tested against
TestMapFor(e) ==
    IF e.EntryType = ACL_EntryType_User THEN TestUserMap
    ELSE IF e.EntryType = ACL_EntryType_Group THEN TestGroupMap
    ELSE EmptyMap

\* both aggregations of the caller returned a map
TestMapsReturned ==
    LET user == GetUserByUID(users, test.uid) IN
    /\ user # NilPtr
    /\ gatheruperms(users, user, test.bucket).status = "returned"
    /\ GatherGroupPermsForUserByID(groups, engine, user, test.bucket).status = "returned"

\* some entry of the ACL has the bit of access kind k and shares a bit with
\* the caller's mask for the entry's principal
SomeEntryGrants(k) ==
    \E i \in 1..Len(test.acl) :
        LET e == test.acl[i] IN
        /\ BitAnd(SpecAccessBit(k), e.Permissions) # 0
        /\ BitAnd(MapGet(TestMapFor(e), e.ID), e.Permissions) # 0

\* C6 (as claimed): testaclaccess(acl, uid, bucket, k) returns true if and only
\* if some entry e of acl has the bit of access kind k set and
\* (M[e.ID] & e.bits) != 0; in every other case it returns false.
C6_TrueIffSomeEntryMatches ==
    test.status = "done" =>
        IF SomeEntryGrants(test.access)
        THEN test.res = "granted"
        ELSE test.res = "denied"

C8_ListIsEvaluated ==
    test.status = "done" =>
        /\ test.access > ACL_AccessType_List => test.res = "denied"
        /\ (test.access = ACL_AccessType_List /\ Len(test.acl) > 0
                /\ TestMapsReturned) =>
              test.res = IF SomeEntryGrants(ACL_AccessType_List)
                         THEN "granted" ELSE "denied"

---------------------------------------------------------------------------
(* The calls of the store specifications: the root users "alice" (owner   *)
(* of the bucket "docs") and "bob" call the template, index and object    *)
(* operations                                                             *)

Callers == {"alice", "bob"}

\* the uperms maps CreateACL is called with, as the sequence it ranges over
UPermsChoices == {<<>>, <<[name |-> "bob", perms |-> 26]>>}

\* the metadata maps objects are created with
MetadataChoices == {[f \in {"color"} |-> v] : v \in {"red", "blue"}}

ObjectKeys == {"a"}

\* the template names objects are created with and the bucket's ACL is set from
TemplateNames == {"t", "c"}

\* the two root users
StoreUsers ==
    [id \in {"U0", "U1"} |->
        IF id = "U0" THEN MkUser("U0", "alice", 15, "", <<>>)
        ELSE MkUser("U1", "bob", User_SysPerms_AddBuckets, "", <<>>)]

\* the bucket "docs" as AddBucket stores it for "alice"
StoreBuckets ==
    [b \in {"docs"} |->
        [Type |-> "Bucket", Name |-> b, Owner |-> "U0", Permissions |-> <<>>]]

\* the world state a call leaves becomes the store
Commit(ws) ==
    /\ users' = ws.users /\ groups' = ws.groups /\ acls' = ws.acls
    /\ buckets' = ws.buckets /\ objects' = ws.objects
    /\ deleted' = ws.deleted /\ indexes' = ws.indexes
    /\ entries' = ws.entries /\ nextid' = ws.nextid
    /\ UNCHANGED <<engine, walk, test>>

CallCreateACL ==
    /\ nextid < MaxIds
    /\ \E caller \in Callers, uents \in UPermsChoices :
          LET r == CreateACL(World, caller, "t", uents, <<>>) IN
          /\ Commit(r.ws)
          /\ last' = [op |-> "CreateACL", caller |-> caller, outcome |-> r.outcome]

CallAddACLEntry ==
    \E caller \in Callers, perms \in {26} :
        LET r == AddACLEntry(World, caller, "t", ACL_EntryType_User, "bob", perms) IN
        /\ Commit(r.ws)
        /\ last' = [op |-> "AddACLEntry", caller |-> caller, outcome |-> r.outcome]

CallEditACLEntry ==
    \E caller \in Callers, perms \in {2} :
        LET r == EditACLEntry(World, caller, "t", ACL_EntryType_User, "bob", perms) IN
        /\ Commit(r.ws)
        /\ last' = [op |-> "EditACLEntry", caller |-> caller, outcome |-> r.outcome]

CallDeleteACLEntry ==
    \E caller \in Callers :
        LET r == DeleteACLEntry(World, caller, "t", ACL_EntryType_User, "bob") IN
        /\ Commit(r.ws)
        /\ last' = [op |-> "DeleteACLEntry", caller |-> caller, outcome |-> r.outcome]

CallDeleteMyACL ==
    \E caller \in Callers :
        LET r == DeleteMyACL(World, caller, "t") IN
        /\ Commit(r.ws)
        /\ last' = [op |-> "DeleteMyACL", caller |-> caller, outcome |-> r.outcome]

CallDeleteACLByID ==
    \E caller \in Callers, id \in DOMAIN acls :
        LET r == DeleteACLByID(World, caller, id) IN
        /\ Commit(r.ws)
        /\ last' = [op |-> "DeleteACLByID", caller |-> caller, outcome |-> r.outcome]

CallSetBucketACLFromTemplate ==
    \E caller \in Callers, aclTemplate \in TemplateNames :
        LET r == SetBucketACLFromTemplate(World, caller, "docs", aclTemplate) IN
        /\ Commit(r.ws)
        /\ last' = [op |-> "SetBucketACLFromTemplate", caller |-> caller,
                    outcome |-> r.outcome]

CallCreateIndex ==
    /\ nextid < MaxIds
    /\ \E caller \in Callers :
          LET r == CreateIndex(World, caller, "color", "docs") IN
          /\ Commit(r.ws)
          /\ last' = [op |-> "CreateIndex", caller |-> caller, outcome |-> r.outcome]

\* CreateEmptyObject: createobject with the IndexOnly flag
CallCreateEmptyObject ==
    /\ nextid < MaxIds
    /\ \E caller \in Callers, key \in ObjectKeys, metadata \in MetadataChoices,
          aclTemplate \in {""} \cup TemplateNames, overwrite \in BOOLEAN :
          LET r == createobject(World, caller, "docs", key, metadata,
                                aclTemplate, ObjectFlag_IndexOnly, overwrite) IN
          /\ Commit(r.ws)
          /\ last' = [op |-> "createobject", caller |-> caller, key |-> key,
                      metadata |-> metadata, aclTemplate |-> aclTemplate,
                      overwrite |-> overwrite, outcome |-> r.outcome]

CallRemoveObject ==
    \E caller \in Callers, key \in ObjectKeys :
        LET r == RemoveObject(World, caller, "docs", key, TRUE) IN
        /\ Commit(r.ws)
        /\ last' = [op |-> "RemoveObject", caller |-> caller, key |-> key,
                    outcome |-> r.outcome]

\* the identifiers delete records are asked for
RecordIds == 1..MaxIds

CallGetDeleteRecord ==
    \E caller \in Callers, id \in RecordIds :
        LET r == GetDeleteRecord(World, caller, "docs", id) IN
        /\ Commit(r.ws)
        /\ last' = [op |-> "GetDeleteRecord", caller |-> caller, id |-> id,
                    outcome |-> r.outcome,
                    error |-> IF r.outcome = "err" THEN r.rv ELSE ""]

CallRemoveDeleteRecord ==
    \E caller \in Callers, id \in RecordIds :
        LET r == RemoveDeleteRecord(World, caller, "docs", id) IN
        /\ Commit(r.ws)
        /\ last' = [op |-> "RemoveDeleteRecord", caller |-> caller, id |-> id,
                    outcome |-> r.outcome,
                    error |-> IF r.outcome = "err" THEN r.rv ELSE ""]

---------------------------------------------------------------------------
(* The template specification: templates are created, edited and deleted, *)
(* and applied to the bucket and to objects                               *)

InitTemplates ==
    /\ users = StoreUsers
    /\ groups = EmptyMap
    /\ acls = EmptyMap
    /\ buckets = StoreBuckets
    /\ objects = EmptyMap /\ deleted = EmptyMap
    /\ indexes = EmptyMap /\ entries = {} /\ nextid = 0
    /\ engine \in {"strict", "lenient"}
    /\ last = NoOp /\ walk = IdleWalk /\ test = NoTest

NextTemplates ==
    \/ CallCreateACL \/ CallAddACLEntry \/ CallEditACLEntry
    \/ CallDeleteACLEntry \/ CallDeleteMyACL \/ CallDeleteACLByID
    \/ CallSetBucketACLFromTemplate \/ CallCreateEmptyObject

SpecTemplates == InitTemplates /\ [][NextTemplates]_vars

---------------------------------------------------------------------------
(* The object specification: with the template "t" of each user in place, *)
(* indexes are created and objects created, overwritten and removed       *)

\* the templates, stored under identifiers uuid handed out earlier: alice's
\* "t" grants bob Read, Overwrite and Delete, her "c" grants him Create and
\* Delete; bob's "t" is empty
ObjectsAcls ==
    [id \in {101, 102, 103} |->
        CASE id = 101 ->
             [Type |-> "ACL", ID |-> 101, Owner |-> "U0", Name |-> "t",
              Permissions |-> <<[ID |-> "U1", Entity |-> <<"User: ", "bob">>,
                                 EntryType |-> ACL_EntryType_User,
                                 Permissions |-> 26]>>]
          [] id = 102 ->
             [Type |-> "ACL", ID |-> 102, Owner |-> "U1", Name |-> "t",
              Permissions |-> <<>>]
          [] id = 103 ->
             [Type |-> "ACL", ID |-> 103, Owner |-> "U0", Name |-> "c",
              Permissions |-> <<[ID |-> "U1", Entity |-> <<"User: ", "bob">>,
                                 EntryType |-> ACL_EntryType_User,
                                 Permissions |-> 20]>>]]

InitObjects ==
    /\ users = StoreUsers
    /\ groups = EmptyMap
    /\ acls = ObjectsAcls
    /\ buckets = StoreBuckets
    /\ objects = EmptyMap /\ deleted = EmptyMap
    /\ indexes = EmptyMap /\ entries = {} /\ nextid = 0
    /\ engine \in {"strict", "lenient"}
    /\ last = NoOp /\ walk = IdleWalk /\ test = NoTest

NextObjects ==
    \/ CallCreateIndex \/ CallCreateEmptyObject \/ CallRemoveObject
    \/ CallSetBucketACLFromTemplate

SpecObjects == InitObjects /\ [][NextObjects]_vars

---------------------------------------------------------------------------
(* Claims about ACL snapshots, checked under SpecTemplates                *)

\* the operations that change or delete a template
TemplateMutations ==
    {"AddACLEntry", "EditACLEntry", "DeleteACLEntry", "DeleteMyACL", "DeleteACLByID"}

\* C9: once a template has been applied to a bucket or to an object, no later
\* AddACLEntry, EditACLEntry, DeleteACLEntry, DeleteMyACL or DeleteACLByID
\* changes the stored snapshot: every bucket and every object carries the same
\* ACL after such a call as before it.
C9_SnapshotsSurviveTemplateMutation ==
    [][last'.op \in TemplateMutations =>
          /\ \A b \in DOMAIN buckets :
                /\ b \in DOMAIN buckets'
                /\ buckets'[b].Permissions = buckets[b].Permissions
          /\ \A o \in DOMAIN objects :
                /\ o \in DOMAIN objects'
                /\ objects'[o].Permissions = objects[o].Permissions]_vars

\* C9's case: alice has just changed or deleted her template "t" while the
\* bucket and an object of hers carry non-empty snapshots that the template no
\* longer converts to.
C9_Witness ==
    /\ last.op \in TemplateMutations /\ last.outcome = "ok"
    /\ last.caller = "alice"
    /\ Len(buckets["docs"].Permissions) # 0
    /\ \E o \in DOMAIN objects :
          /\ objects[o].Owner = "U0" /\ Len(objects[o].Permissions) # 0
          /\ LET t == getuseraclbyname(World, "U0", "t") IN
             \/ IsNil(t)
             \/ /\ templatetoacl(t) # buckets["docs"].Permissions
                /\ templatetoacl(t) # objects[o].Permissions

---------------------------------------------------------------------------
(* Claims about the index round trip, checked under SpecObjects           *)

\* the index documents on a field of a bucket
IndexesOn(ws, bucket, field) ==
    {ws.indexes[x] : x \in {y \in DOMAIN ws.indexes : y[2] = bucket /\ y[3] = field}}

\* the lookup of (field, value) by the owner of idx returns the key
LookupReturns(ws, idx, value, key) ==
    LET r == QueryObjectsByIndex(ws, ws.users[idx.Owner].UID, idx.Bucket,
                                 idx.Field, value)
    IN r.outcome = "ok" /\ \E i \in 1..Len(r.rv) : r.rv[i] = key

\* the scan of the lookup of (field, value) in idx yields the key
LookupYields(ws, idx, value, key) ==
    \E i \in 1..Len(getindexiterator(ws, idx.ID, value)) :
        getindexiterator(ws, idx.ID, value)[i] = key

\* C10 (as claimed): with an active index on field f, creating an object with
\* f = v1 makes the lookup of (f, v1) return its key; overwriting it with
\* f = v2 removes it from the lookup of (f, v1) and adds it to that of (f, v2);
\* deleting it removes it from every lookup.
C10_IndexRoundTrip ==
    [][/\ (last'.op = "createobject" /\ last'.outcome = "ok") =>
             \A f \in DOMAIN last'.metadata :
                LET key == last'.key
                    v2 == last'.metadata[f]
                IN IF <<"docs", key>> \notin DOMAIN objects
                   THEN \A idx \in IndexesOn(World, "docs", f) :
                           users[idx.Owner].UID = last'.caller =>
                              LookupReturns(World', idx, v2, key)
                   ELSE LET v1 == objects[<<"docs", key>>].Metadata[f] IN
                        \A idx \in IndexesOn(World, "docs", f) :
                           LookupReturns(World, idx, v1, key) =>
                              /\ v1 # v2 => ~LookupYields(World', idx, v1, key)
                              /\ LookupReturns(World', idx, v2, key)
       /\ (last'.op = "RemoveObject" /\ last'.outcome = "ok") =>
             \A x \in DOMAIN indexes, v \in {"red", "blue"} :
                ~LookupYields(World', indexes[x], v, last'.key)]_vars

---------------------------------------------------------------------------
(* Claims about index entries and object writes, checked under SpecObjects *)

\* C11 (as claimed): every Index Entry (indexID, value, key) references a live
\* object with that key in the index's bucket whose metadata holds that value
\* for the index's field; no stale entry survives an overwrite or a delete.
C11_EntriesReferenceLiveObjects ==
    \A e \in entries :
        \E x \in DOMAIN indexes :
            /\ indexes[x].ID = e[1]
            /\ <<indexes[x].Bucket, e[3]>> \in DOMAIN objects
            /\ LET md == objects[<<indexes[x].Bucket, e[3]>>].Metadata IN
               /\ indexes[x].Field \in DOMAIN md
               /\ md[indexes[x].Field] = e[2]

\* the ID of the User document of a caller of the store specifications
CallerID(caller) == GetMyUser(World, caller)

\* C12 (as claimed): whenever createobject returns an error, neither the
\* Object records nor the Index Entries differ from the state before the call;
\* whenever it returns success, the new Object record and an entry for each
\* metadata field the caller has an index on are present.
C12_CreateIsAtomic ==
    [][last'.op = "createobject" =>
          /\ last'.outcome = "err" =>
                objects' = objects /\ entries' = entries
          /\ last'.outcome = "ok" =>
                /\ <<"docs", last'.key>> \in DOMAIN objects'
                /\ objects'[<<"docs", last'.key>>].Owner = CallerID(last'.caller)
                /\ objects'[<<"docs", last'.key>>].Metadata = last'.metadata
                /\ \A f \in DOMAIN last'.metadata :
                      \A idx \in IndexesOn(World', "docs", f) :
                         idx.Owner = CallerID(last'.caller) =>
                            <<idx.ID, last'.metadata[f], last'.key>> \in entries']_vars

\* the answer of the access test of a caller on an existing object of "docs":
\* against the object's snapshot ACL if it has one, else the bucket's
ObjectAccess(caller, key, access) ==
    AccessVia(World, objects[<<"docs", key>>].Permissions,
              buckets["docs"].Permissions, caller, "docs", access)

\* createobject has just replaced an object of another owner
ReplacedByNonOwner ==
    /\ last'.op = "createobject" /\ last'.outcome = "ok"
    /\ <<"docs", last'.key>> \in DOMAIN objects
    /\ objects[<<"docs", last'.key>>].Owner # CallerID(last'.caller)

\* C13 (as claimed): an existing object is replaced by a caller who is not its
\* owner only if the Overwrite access test passes against the object's
\* snapshot ACL when it has one, else against the bucket's ACL; this holds for
\* the bucket's owner and for a caller without Read access as well.
C13_ReplaceNeedsOverwrite ==
    [][ReplacedByNonOwner =>
          ObjectAccess(last'.caller, last'.key, ACL_AccessType_Overwrite)
             = "granted"]_vars

\* createobject has just been called with overwrite = true by the owner of the
\* object at the key, with the name of a template of the caller's
OverwriteByOwner ==
    /\ last'.op = "createobject" /\ last'.overwrite
    /\ <<"docs", last'.key>> \in DOMAIN objects
    /\ objects[<<"docs", last'.key>>].Owner = CallerID(last'.caller)
    /\ ~IsNil(getuseraclbyname(World, CallerID(last'.caller), last'.aclTemplate))

\* C14 (as claimed): a caller who owns an existing object can overwrite it on
\* ownership alone, whatever the owner and the ACL of the bucket are.
C14_OwnerOverwrites ==
    [][OverwriteByOwner => last'.outcome = "ok"]_vars

\* createobject has just been called at a key no object is stored under, with
\* an empty template name or the name of a template of the caller's
CreateAtUnusedKey ==
    /\ last'.op = "createobject"
    /\ <<"docs", last'.key>> \notin DOMAIN objects
    /\ \/ last'.aclTemplate = ""
       \/ ~IsNil(getuseraclbyname(World, CallerID(last'.caller), last'.aclTemplate))

\* the answer of the Create test of a caller against the bucket's ACL
CreateAccess(caller) ==
    testaclaccess(users, groups, engine, buckets["docs"].Permissions, caller,
                  "docs", ACL_AccessType_Create)

\* C16 (as claimed): creating an object at an unused key succeeds for the
\* bucket's owner without any ACL test, and for any other caller exactly when
\* the Create test passes against the bucket's ACL; a bucket with no ACL
\* denies creation to every non-owner, and a denied create writes nothing.
C16_FreshCreateNeedsCreate ==
    [][CreateAtUnusedKey =>
          IF buckets["docs"].Owner = CallerID(last'.caller)
          THEN last'.outcome = "ok"
          ELSE /\ last'.outcome = "ok" <=> CreateAccess(last'.caller) = "granted"
               /\ Len(buckets["docs"].Permissions) = 0 => last'.outcome = "err"
               /\ last'.outcome = "err" => store' = store]_vars

\* C17 (as claimed): an authorized createobject with an empty template name
\* stores the object with no ACL snapshot, and with a non-empty template name
\* stores a copy (ID, kind, bitmask per entry) of the caller's own template of
\* that name; a template name the caller does not own makes the call fail
\* without writing.
C17_SnapshotFromTemplate ==
    [][(/\ last'.op = "createobject"
        /\ <<"docs", last'.key>> \notin DOMAIN objects
        /\ buckets["docs"].Owner = CallerID(last'.caller)) =>
          LET t == getuseraclbyname(World, CallerID(last'.caller), last'.aclTemplate)
          IN IF last'.aclTemplate = ""
             THEN /\ last'.outcome = "ok"
                  /\ objects'[<<"docs", last'.key>>].Permissions = <<>>
             ELSE IF IsNil(t)
             THEN last'.outcome = "err" /\ store' = store
             ELSE /\ last'.outcome = "ok"
                  /\ objects'[<<"docs", last'.key>>].Permissions = templatetoacl(t)]_vars

\* C18 (as claimed): RemoveObject by the object's owner always succeeds; by
\* another caller it succeeds whenever the Delete test passes against the
\* object's snapshot ACL (the bucket's ACL when the object has none) and fails
\* with permission denied otherwise; no other access kind is required.
C18_RemoveNeedsDeleteOnly ==
    [][(/\ last'.op = "RemoveObject"
        /\ <<"docs", last'.key>> \in DOMAIN objects) =>
          IF objects[<<"docs", last'.key>>].Owner = CallerID(last'.caller)
          THEN last'.outcome = "ok"
          ELSE IF ObjectAccess(last'.caller, last'.key, ACL_AccessType_Delete)
                     = "granted"
          THEN last'.outcome = "ok"
          ELSE last'.outcome = "err"]_vars

---------------------------------------------------------------------------
(* The delete-record specification: with the templates in place, objects   *)
(* are created and removed, and their delete records read and removed      *)

NextRecords ==
    \/ CallCreateEmptyObject \/ CallRemoveObject
    \/ CallGetDeleteRecord \/ CallRemoveDeleteRecord

SpecRecords == InitObjects /\ [][NextRecords]_vars

---------------------------------------------------------------------------
(* Claims about delete records, checked under SpecRecords                  *)

\* RemoveObject has just succeeded
Removed == last'.op = "RemoveObject" /\ last'.outcome = "ok"

RecordAskedByOther ==
    /\ last'.op \in {"GetDeleteRecord", "RemoveDeleteRecord"}
    /\ <<"docs", last'.id>> \in DOMAIN deleted
    /\ deleted[<<"docs", last'.id>>].Owner # CallerID(last'.caller)

\* C20: a delete record stays in the store unchanged until RemoveDeleteRecord
\* is called for it by the deleted object's owner; GetDeleteRecord and
\* RemoveDeleteRecord fail with permission denied for every other caller, a
\* deleter who is not the owner included.
C20_DeleteRecordKept ==
    [][/\ \A d \in DOMAIN deleted :
             \/ d \in DOMAIN deleted' /\ deleted'[d] = deleted[d]
             \/ /\ last'.op = "RemoveDeleteRecord" /\ last'.outcome = "ok"
                /\ last'.id = d[2]
                /\ CallerID(last'.caller) = deleted[d].Owner
       /\ RecordAskedByOther =>
             /\ last'.outcome = "err" /\ last'.error = "permission denied"
             /\ deleted' = deleted]_vars

\* C20's case: bob, who deleted alice's object, has just been denied the
\* removal of its delete record, which is still in the store
C20_Witness ==
    /\ last.op = "RemoveDeleteRecord" /\ last.caller = "bob"
    /\ last.error = "permission denied"
    /\ <<"docs", last.id>> \in DOMAIN deleted
    /\ deleted[<<"docs", last.id>>].Owner = "U0"
    /\ deleted[<<"docs", last.id>>].Deleter = "U1"

---------------------------------------------------------------------------
(* The sub-user specification: "alice" owns the bucket "docs" and holds a  *)
(* link to her sub-user "carol"; alice sets the link's grants and carol    *)
(* creates objects                                                         *)

\* alice with the link AddSubUser appended for carol (Read on "docs"), and
\* carol as adduser_int stored her
SubUserStore ==
    [id \in {"U0", "U2"} |->
        IF id = "U0"
        THEN MkUser("U0", "alice", 15, "",
                    <<MkSubUser("U2", "carol", MkPerms(ACL_Perms_ReadObject, Absent))>>)
        ELSE MkUser("U2", "carol", 0, "U0", <<>>)]

\* carol's template "t", with no entry
SubUserAcls ==
    [id \in {104} |->
        [Type |-> "ACL", ID |-> 104, Owner |-> "U2", Name |-> "t",
         Permissions |-> <<>>]]

\* the ACLs the bucket carries: none, all rights or Create for alice, Create
\* for carol
SubUserBucketAcls ==
    {<<>>,
     <<[ID |-> "U0", EntryType |-> ACL_EntryType_User, Permissions |-> 31]>>,
     <<[ID |-> "U0", EntryType |-> ACL_EntryType_User,
        Permissions |-> ACL_Perms_CreateObject]>>,
     <<[ID |-> "U2", EntryType |-> ACL_EntryType_User,
        Permissions |-> ACL_Perms_CreateObject]>>}

\* the grants SetSubUserPermission is called with
GrantChoices == {0, 2, 6}

InitSubUser ==
    /\ users = SubUserStore
    /\ groups = EmptyMap
    /\ acls = SubUserAcls
    /\ \E acl \in SubUserBucketAcls :
          buckets = [b \in {"docs"} |->
                        [Type |-> "Bucket", Name |-> b, Owner |-> "U0",
                         Permissions |-> acl]]
    /\ objects = EmptyMap /\ deleted = EmptyMap
    /\ indexes = EmptyMap /\ entries = {} /\ nextid = 0
    /\ engine \in {"strict", "lenient"}
    /\ last = NoOp /\ walk = IdleWalk /\ test = NoTest

CallSetSubUserPermission ==
    \E caller \in {"alice", "carol"}, bucket \in Bkts, perms \in GrantChoices :
        LET r == SetSubUserPermission(World, caller, "carol", bucket, perms) IN
        /\ Commit(r.ws)
        /\ last' = [op |-> "SetSubUserPermission", caller |-> caller,
                    outcome |-> r.outcome]

\* CreateEmptyObject called by the sub-user
CallSubUserCreateEmptyObject ==
    /\ nextid < MaxIds
    /\ \E key \in ObjectKeys, metadata \in MetadataChoices, overwrite \in BOOLEAN :
          LET r == createobject(World, "carol", "docs", key, metadata, "t",
                                ObjectFlag_IndexOnly, overwrite) IN
          /\ Commit(r.ws)
          /\ last' = [op |-> "createobject", caller |-> "carol", key |-> key,
                      metadata |-> metadata, aclTemplate |-> "t",
                      overwrite |-> overwrite, outcome |-> r.outcome]

NextSubUser == CallSetSubUserPermission \/ CallSubUserCreateEmptyObject

SpecSubUser == InitSubUser /\ [][NextSubUser]_vars

---------------------------------------------------------------------------
(* Claims about sub-users, checked under SpecSubUser                       *)

\* the grant for "docs" on alice's link to carol
CarolGrant == users["U0"].SubUsers[1].Perms["docs"]

\* the bucket's ACL holds a User entry for alice with the Create bit
BucketGrantsAliceCreate ==
    \E i \in 1..Len(buckets["docs"].Permissions) :
        /\ buckets["docs"].Permissions[i].ID = "U0"
        /\ buckets["docs"].Permissions[i].EntryType = ACL_EntryType_User
        /\ BitAnd(buckets["docs"].Permissions[i].Permissions,
                  ACL_Perms_CreateObject) # 0

\* C15 (as claimed): a sub-user whose parent link grants only Read (0x02) on
\* the bucket is denied creating an object in it; once the parent has set the
\* link's grant to Read+Create (0x06), the same create succeeds.
C15_GrantEnablesCreate ==
    [][(/\ last'.op = "createobject" /\ last'.caller = "carol"
        /\ <<"docs", last'.key>> \notin DOMAIN objects) =>
          /\ CarolGrant = 2 => last'.outcome = "err"
          /\ (CarolGrant = 6 /\ BucketGrantsAliceCreate) => last'.outcome = "ok"]_vars

---------------------------------------------------------------------------
(* Buckets                                                                *)

\* the User document of a caller known to the store
MyUser(ws, caller) == ws.users[GetMyUser(ws, caller)]

\* AddBucket without the test "bkt != nil"
AddBucket_Overwrites(ws, caller, name) ==
    IF GetMyUser(ws, caller) = NilPtr THEN Ret("err", "unknown user", ws)
    ELSE IF BitAnd(MyUser(ws, caller).SysPerms, User_SysPerms_AddBuckets) = 0
    THEN Ret("err", "permission denied", ws)
    ELSE Ret("ok", "true",
             [ws EXCEPT !.buckets =
                 MapPut(@, name, [Type |-> "Bucket", Name |-> name,
                                  Owner |-> GetMyUser(ws, caller),
                                  Permissions |-> <<>>])])

\* AddBucket(name, metadata)
AddBucket(ws, caller, name) ==
    IF GetMyUser(ws, caller) = NilPtr THEN Ret("err", "unknown user", ws)
    ELSE IF BitAnd(MyUser(ws, caller).SysPerms, User_SysPerms_AddBuckets) = 0
    THEN Ret("err", "permission denied", ws)
    ELSE IF ~IsNil(GetBucket(ws, name)) THEN Ret("err", "bucket exists", ws)
    ELSE Ret("ok", "true",
             [ws EXCEPT !.buckets =
                 MapPut(@, name, [Type |-> "Bucket", Name |-> name,
                                  Owner |-> GetMyUser(ws, caller),
                                  Permissions |-> <<>>])])

\* an isbucketempty that answers true for every bucket
isbucketempty_Always(ws, bucket) == TRUE

\* isbucketempty: the scan of the Object keys whose first attribute is the
\* bucket has no element
isbucketempty(ws, bucket) ==
    ~\E o \in DOMAIN ws.objects : o[1] = bucket

\* RemoveBucket(name)
RemoveBucket(ws, caller, name) ==
    IF GetMyUser(ws, caller) = NilPtr THEN Ret("err", "unknown user", ws)
    ELSE IF IsNil(GetBucket(ws, name)) THEN Ret("err", "unknown bucket", ws)
    ELSE IF GetBucket(ws, name).Owner # GetMyUser(ws, caller)
    THEN Ret("err", "permission denied", ws)
    ELSE IF ~isbucketempty(ws, name) THEN Ret("err", "bucket not empty", ws)
    ELSE Ret("ok", "true", [ws EXCEPT !.buckets = MapDel(@, name)])

---------------------------------------------------------------------------
(* The bucket specification: with the templates in place and no bucket,    *)
(* "alice" and "bob" add and remove the buckets "docs" and "pics" and      *)
(* create and remove objects in them                                       *)

\* bob's system permissions: AddBuckets, or every bit but AddBuckets
BobSysPerms == {User_SysPerms_AddBuckets, 7}

InitBuckets ==
    /\ \E sp \in BobSysPerms :
          users = [StoreUsers EXCEPT !["U1"].SysPerms = sp]
    /\ groups = EmptyMap
    /\ acls = ObjectsAcls
    /\ buckets = EmptyMap
    /\ objects = EmptyMap /\ deleted = EmptyMap
    /\ indexes = EmptyMap /\ entries = {} /\ nextid = 0
    /\ engine \in {"strict", "lenient"}
    /\ last = NoOp /\ walk = IdleWalk /\ test = NoTest

CallAddBucket ==
    \E caller \in Callers, name \in Bkts :
        LET r == AddBucket(World, caller, name) IN
        /\ Commit(r.ws)
        /\ last' = [op |-> "AddBucket", caller |-> caller, name |-> name,
                    outcome |-> r.outcome,
                    error |-> IF r.outcome = "err" THEN r.rv ELSE ""]

CallRemoveBucket ==
    \E caller \in Callers, name \in Bkts :
        LET r == RemoveBucket(World, caller, name) IN
        /\ Commit(r.ws)
        /\ last' = [op |-> "RemoveBucket", caller |-> caller, name |-> name,
                    outcome |-> r.outcome,
                    error |-> IF r.outcome = "err" THEN r.rv ELSE ""]

\* CreateEmptyObject in either bucket, with the caller's template "t"
CallBucketCreateEmptyObject ==
    /\ nextid < MaxIds
    /\ \E caller \in Callers, bucket \in Bkts, key \in ObjectKeys :
          LET r == createobject(World, caller, bucket, key,
                                [f \in {"color"} |-> "red"], "t",
                                ObjectFlag_IndexOnly, FALSE) IN
          /\ Commit(r.ws)
          /\ last' = [op |-> "createobject", caller |-> caller, name |-> bucket,
                      outcome |-> r.outcome, error |-> ""]

\* RemoveObject in either bucket
CallBucketRemoveObject ==
    \E caller \in Callers, bucket \in Bkts, key \in ObjectKeys :
        LET r == RemoveObject(World, caller, bucket, key, TRUE) IN
        /\ Commit(r.ws)
        /\ last' = [op |-> "RemoveObject", caller |-> caller, name |-> bucket,
                    outcome |-> r.outcome, error |-> ""]

NextBuckets ==
    \/ CallAddBucket \/ CallRemoveBucket
    \/ CallBucketCreateEmptyObject \/ CallBucketRemoveObject

SpecBuckets == InitBuckets /\ [][NextBuckets]_vars

---------------------------------------------------------------------------
(* Claims about buckets, checked under SpecBuckets                         *)

\* C21: RemoveBucket succeeds only for the bucket's owner and only when no
\* Object record exists under the bucket; the bucket of every live Object has
\* a Bucket record.
C21_RemoveBucketOwnerAndEmpty ==
    /\ [](\A o \in DOMAIN objects : o[1] \in DOMAIN buckets)
    /\ [][(last'.op = "RemoveBucket" /\ last'.outcome = "ok") =>
             /\ last'.name \in DOMAIN buckets
             /\ buckets[last'.name].Owner = CallerID(last'.caller)
             /\ \A o \in DOMAIN objects : o[1] # last'.name
             /\ last'.name \notin DOMAIN buckets']_vars

\* C21's case: the owner of a bucket that holds an object has just been
\* refused its removal, and the bucket is still there
C21_Witness ==
    /\ last.op = "RemoveBucket" /\ last.error = "bucket not empty"
    /\ last.name \in DOMAIN buckets
    /\ buckets[last.name].Owner = CallerID(last.caller)
    /\ \E o \in DOMAIN objects : o[1] = last.name

---------------------------------------------------------------------------
(* Principals: users, sub-users, groups and sub-groups                     *)

\* the requested UIDs that hold a double quote
QuotedUIDs == {"d\"q"}

\* GetUserByUID as the user operations call it.  The selector is the text
\* {"selector":{"type":"User","uid":"%s"}} with the uid formatted in as it is:
\* for a uid that holds a double quote the text is not JSON, a "strict" query
\* engine rejects it (the call returns nil and an error) and a "lenient" one
\* serves the selection that was meant.
GetUserByUID_query(ws, uid) ==
    IF uid \in QuotedUIDs /\ ws.engine = "strict" THEN NilPtr
    ELSE GetUserByUID(ws.users, uid)

\* sysperms of the user initusers adds: 0xffffffff, kept here without its top
\* bit (0x7fffffff, the largest integer of the checker); the code tests the
\* bits 0x01 to 0x08 only
AllSysPerms == 2147483647

\* uuid.NewString() for a User and for a Group document
NewUserID(ws) == UName[NewID(ws) + 1]

GName == <<"g1", "g2", "g3", "g4">>

NewGroupID(ws) == GName[NewID(ws)]

\* adduser_int(uid, parent, sysperms): the new ID, or the error's message
adduser_int(ws, uid, parent, sysperms) ==
    IF GetUserByUID_query(ws, uid) # NilPtr
    THEN Ret("err", "user already exists", ws)
    ELSE Ret("ok", NewUserID(ws),
             [ws EXCEPT !.users = MapPut(@, NewUserID(ws),
                                         MkUser(NewUserID(ws), uid, sysperms,
                                                parent, <<>>)),
                        !.nextid = NewID(ws)])

\* initusers: the caller becomes an administrator
initusers(ws, caller) == adduser_int(ws, caller, "", AllSysPerms)

NoneGroupID == "ffffffff-ffff-ffff-ffff-ffffffffffff"

\* the Group document initgroups puts
NoneGroup ==
    [Type |-> "Group", ID |-> NoneGroupID, Name |-> "none", Owner |-> "",
     Parent |-> "", Users |-> <<>>, SubGroups |-> <<>>]

\* initgroups: the group "none" is put
initgroups(ws) == [ws EXCEPT !.groups = MapPut(@, NoneGroupID, NoneGroup)]

\* InitLedger, the answer of initusers in hand
InitLedger_users(added) ==
    IF added.outcome # "ok" THEN added
    ELSE Ret("ok", "", initgroups(added.ws))

\* InitLedger: initusers, initgroups, then the initializers that write nothing
InitLedger(ws, caller) == InitLedger_users(initusers(ws, caller))

\* AddUser(uid, sysperms)
AddUser(ws, caller, uid, sysperms) ==
    IF GetMyUser(ws, caller) = NilPtr THEN Ret("err", "unknown user", ws)
    ELSE IF BitAnd(MyUser(ws, caller).SysPerms, User_SysPerms_AddUsers) = 0
    THEN Ret("err", "permission denied", ws)
    ELSE adduser_int(ws, uid, "", sysperms)

\* AddSubUser from "su := SubUser {...}" on, without the DelState of the new
\* user when the put of the caller's document fails
AddSubUser_link_NoUndo(me, uid, perms, linkok, added) ==
    IF added.outcome # "ok" THEN added
    ELSE IF linkok
    THEN Ret("ok", added.rv,
             [added.ws EXCEPT !.users[me].SubUsers =
                 Append(@, MkSubUser(added.rv, uid, perms))])
    ELSE Ret("err", "failed to put to world state", added.ws)

\* AddSubUser from "su := SubUser {...}" on, the answer of adduser_int in
\* hand; linkok tells whether the put of the caller's document succeeds
AddSubUser_link(me, uid, perms, linkok, added) ==
    IF added.outcome # "ok" THEN added
    ELSE IF linkok
    THEN Ret("ok", added.rv,
             [added.ws EXCEPT !.users[me].SubUsers =
                 Append(@, MkSubUser(added.rv, uid, perms))])
    ELSE Ret("err", "failed to put to world state",
             [added.ws EXCEPT !.users = MapDel(@, added.rv)])

\* AddSubUser that refuses no requested system permission
AddSubUser_AnySysPerms(ws, caller, uid, perms, sysperms, linkok) ==
    IF GetMyUser(ws, caller) = NilPtr THEN Ret("err", "unknown user", ws)
    ELSE IF BitAnd(MyUser(ws, caller).SysPerms, User_SysPerms_AddSubUsers) = 0
    THEN Ret("err", "permission denied", ws)
    ELSE AddSubUser_link(GetMyUser(ws, caller), uid, perms, linkok,
                         adduser_int(ws, uid, GetMyUser(ws, caller), sysperms))

\* AddSubUser(uid, perms, sysperms)
AddSubUser(ws, caller, uid, perms, sysperms, linkok) ==
    IF BitAnd(sysperms, User_SysPerms_AddUsers) # 0
    THEN Ret("err", "invalid system permissions", ws)
    ELSE IF GetMyUser(ws, caller) = NilPtr THEN Ret("err", "unknown user", ws)
    ELSE IF BitAnd(MyUser(ws, caller).SysPerms, User_SysPerms_AddSubUsers) = 0
    THEN Ret("err", "permission denied", ws)
    ELSE AddSubUser_link(GetMyUser(ws, caller), uid, perms, linkok,
                         adduser_int(ws, uid, GetMyUser(ws, caller), sysperms))

\* addgroup_int(name, owner, parent, addowner): the new ID, or the message
addgroup_int(ws, name, owner, parent, addowner) ==
    IF GetGroupByName(ws.groups, name) # NilPtr
    THEN Ret("err", "group already exists", ws)
    ELSE Ret("ok", NewGroupID(ws),
             [ws EXCEPT !.groups =
                 MapPut(@, NewGroupID(ws),
                        [Type |-> "Group", ID |-> NewGroupID(ws),
                         Name |-> name, Owner |-> owner, Parent |-> parent,
                         Users |-> IF addowner THEN <<owner>> ELSE <<>>,
                         SubGroups |-> <<>>]),
                        !.nextid = NewID(ws)])

\* AddGroup(name, addme)
AddGroup(ws, caller, name, addme) ==
    IF GetMyUser(ws, caller) = NilPtr THEN Ret("err", "unknown user", ws)
    ELSE IF BitAnd(MyUser(ws, caller).SysPerms, User_SysPerms_AddGroups) = 0
    THEN Ret("err", "permission denied", ws)
    ELSE addgroup_int(ws, name, GetMyUser(ws, caller), "", addme)

\* AddSubGroup that leaves the parent's SubGroups as they were
AddSubGroup_link_Unlinked(pgrp, name, perms, linkok, added) ==
    IF added.outcome # "ok" \/ linkok THEN added
    ELSE Ret("err", "failed to put to world state",
             [added.ws EXCEPT !.groups = MapDel(@, added.rv)])

\* AddSubGroup from "sg := SubGroup {...}" on, the answer of addgroup_int in
\* hand; linkok tells whether the put of the parent's document succeeds
AddSubGroup_link(pgrp, name, perms, linkok, added) ==
    IF added.outcome # "ok" THEN added
    ELSE IF linkok
    THEN Ret("ok", added.rv,
             [added.ws EXCEPT !.groups[pgrp].SubGroups =
                 Append(@, [ID |-> added.rv, Name |-> name, Perms |-> perms])])
    ELSE Ret("err", "failed to put to world state",
             [added.ws EXCEPT !.groups = MapDel(@, added.rv)])

\* AddSubGroup(pname, name, perms, addme)
AddSubGroup(ws, caller, pname, name, perms, addme, linkok) ==
    IF GetMyUser(ws, caller) = NilPtr THEN Ret("err", "unknown user", ws)
    ELSE IF BitAnd(MyUser(ws, caller).SysPerms, User_SysPerms_AddGroups) = 0
    THEN Ret("err", "permission denied", ws)
    ELSE IF GetGroupByName(ws.groups, pname) = NilPtr
    THEN Ret("err", "group not found", ws)
    ELSE IF ws.groups[GetGroupByName(ws.groups, pname)].Owner # GetMyUser(ws, caller)
    THEN Ret("err", "permission denied", ws)
    ELSE AddSubGroup_link(GetGroupByName(ws.groups, pname), name, perms, linkok,
                          addgroup_int(ws, name, GetMyUser(ws, caller),
                                       GetGroupByName(ws.groups, pname), addme))

---------------------------------------------------------------------------
(* The principal specification: on an empty store, or on the store         *)
(* InitLedger left for "alice", the callers "alice" and "bob" initialize   *)
(* the ledger and add users, sub-users, groups and sub-groups              *)

\* the UIDs users are requested with
RequestedUIDs == {"bob"} \cup QuotedUIDs

\* the system permissions users are requested with: none, AddUsers,
\* AddSubUsers with AddGroups
SysPermsChoices == {0, 1, 6}

\* the group names requested
GroupNames == {"eng", "ops"}

\* the users and groups InitLedger leaves when "alice" calls it on an empty
\* store whose uuid hands out "U0"
LedgerUsers == MapPut(EmptyMap, "U0", MkUser("U0", "alice", AllSysPerms, "", <<>>))

LedgerGroups == MapPut(EmptyMap, NoneGroupID, NoneGroup)

InitPrincipals ==
    /\ engine \in {"strict", "lenient"}
    /\ \/ users = EmptyMap /\ groups = EmptyMap
       \/ users = LedgerUsers /\ groups = LedgerGroups
    /\ acls = EmptyMap /\ buckets = EmptyMap
    /\ objects = EmptyMap /\ deleted = EmptyMap
    /\ indexes = EmptyMap /\ entries = {} /\ nextid = 0
    /\ last = NoOp /\ walk = IdleWalk /\ test = NoTest

CallInitLedger ==
    /\ nextid < MaxIds
    /\ \E caller \in Callers :
          LET r == InitLedger(World, caller) IN
          /\ Commit(r.ws)
          /\ last' = [op |-> "InitLedger", caller |-> caller, uid |-> caller,
                      sysperms |-> AllSysPerms, linkok |-> TRUE,
                      outcome |-> r.outcome,
                      error |-> IF r.outcome = "err" THEN r.rv ELSE ""]

CallAddUser ==
    /\ nextid < MaxIds
    /\ \E caller \in Callers, uid \in RequestedUIDs, sysperms \in SysPermsChoices :
          LET r == AddUser(World, caller, uid, sysperms) IN
          /\ Commit(r.ws)
          /\ last' = [op |-> "AddUser", caller |-> caller, uid |-> uid,
                      sysperms |-> sysperms, linkok |-> TRUE,
                      outcome |-> r.outcome,
                      error |-> IF r.outcome = "err" THEN r.rv ELSE ""]

CallAddSubUser ==
    /\ nextid < MaxIds
    /\ \E caller \in Callers, uid \in RequestedUIDs, sysperms \in SysPermsChoices,
          linkok \in BOOLEAN :
          LET r == AddSubUser(World, caller, uid, MkPerms(2, Absent), sysperms,
                              linkok) IN
          /\ Commit(r.ws)
          /\ last' = [op |-> "AddSubUser", caller |-> caller, uid |-> uid,
                      sysperms |-> sysperms, linkok |-> linkok,
                      outcome |-> r.outcome,
                      error |-> IF r.outcome = "err" THEN r.rv ELSE ""]

CallAddGroup ==
    /\ nextid < MaxIds
    /\ \E caller \in Callers, name \in GroupNames, addme \in BOOLEAN :
          LET r == AddGroup(World, caller, name, addme) IN
          /\ Commit(r.ws)
          /\ last' = [op |-> "AddGroup", caller |-> caller, uid |-> name,
                      sysperms |-> 0, linkok |-> TRUE,
                      outcome |-> r.outcome,
                      error |-> IF r.outcome = "err" THEN r.rv ELSE ""]

CallAddSubGroup ==
    /\ nextid < MaxIds
    /\ \E caller \in Callers, pname \in GroupNames, name \in GroupNames,
          linkok \in BOOLEAN :
          LET r == AddSubGroup(World, caller, pname, name, MkPerms(2, Absent),
                               FALSE, linkok) IN
          /\ Commit(r.ws)
          /\ last' = [op |-> "AddSubGroup", caller |-> caller, uid |-> name,
                      sysperms |-> 0, linkok |-> linkok,
                      outcome |-> r.outcome,
                      error |-> IF r.outcome = "err" THEN r.rv ELSE ""]

NextPrincipals ==
    \/ CallInitLedger \/ CallAddUser \/ CallAddSubUser
    \/ CallAddGroup \/ CallAddSubGroup

SpecPrincipals == InitPrincipals /\ [][NextPrincipals]_vars


---------------------------------------------------------------------------
(* Claims on the principals                                                *)

\* C23: after any sequence of InitLedger, AddUser and AddSubUser calls no two
\* users share a UID or an ID, and the ID and the UID of a stored user never
\* change.
C23_PrincipalsUnique ==
    /\ [](\A a, b \in DOMAIN users :
             a # b => /\ users[a].UID # users[b].UID
                      /\ users[a].ID # users[b].ID)
    /\ [][\A id \in DOMAIN users \cap DOMAIN users' :
             /\ users'[id].ID = users[id].ID
             /\ users'[id].UID = users[id].UID]_vars


\* the positions of the links to child in a list of SubUsers or SubGroups
LinksTo(links, child) == {i \in 1..Len(links) : links[i].ID = child}

\* every child names a stored parent that links it exactly once, and every
\* link names a stored child whose parent is the holder of the link
WellFormed(docs, field) ==
    /\ \A c \in DOMAIN docs :
          docs[c].Parent # "" =>
             /\ docs[c].Parent \in DOMAIN docs
             /\ Cardinality(LinksTo(docs[docs[c].Parent][field], c)) = 1
    /\ \A p \in DOMAIN docs :
          \A i \in 1..Len(docs[p][field]) :
             /\ docs[p][field][i].ID \in DOMAIN docs
             /\ docs[docs[p][field][i].ID].Parent = p

\* C24: after every operation that completed with success the ownership
\* hierarchy is well formed: a user or group with a parent names a stored
\* parent whose SubUsers or SubGroups hold exactly one link with the child's
\* ID, and every link names a stored child whose parent is the link's holder.
C24_HierarchyWellFormed ==
    (last.op = "none" \/ last.outcome = "ok") =>
       /\ WellFormed(users, "SubUsers")
       /\ WellFormed(groups, "SubGroups")

\* a sub-user and a sub-group are stored after a successful call
C24_Witness ==
    /\ last.op \in {"AddSubUser", "AddSubGroup"} /\ last.outcome = "ok"
    /\ \E u \in DOMAIN users : users[u].Parent # ""
    /\ \E g \in DOMAIN groups : groups[g].Parent # ""


\* the caller is a stored user whose SysPerms hold the bit
HoldsSysPerm(caller, bit) ==
    /\ GetMyUser(World, caller) # NilPtr
    /\ BitAnd(MyUser(World, caller).SysPerms, bit) # 0

\* the caller is a stored user whose SysPerms lack the bit
LacksSysPerm(caller, bit) ==
    /\ GetMyUser(World, caller) # NilPtr
    /\ BitAnd(MyUser(World, caller).SysPerms, bit) = 0

\* a stored user carries the UID
UIDInUse(uid) == \E id \in DOMAIN users : users[id].UID = uid

\* the step is a call that was refused with "permission denied" and wrote
\* nothing
DeniedUnwritten ==
    /\ last'.outcome = "err" /\ last'.error = "permission denied"
    /\ store' = store

\* C25: AddUser by a caller without the AddUsers bit and AddSubUser by a
\* caller without the AddSubUsers bit fail with "permission denied" and write
\* nothing; both fail without writing when the requested UID is in use.
C25_AddUserGuarded ==
    [][/\ (last'.op = "AddUser"
           /\ LacksSysPerm(last'.caller, User_SysPerms_AddUsers))
          => DeniedUnwritten
       /\ (last'.op = "AddSubUser"
           /\ LacksSysPerm(last'.caller, User_SysPerms_AddSubUsers))
          => DeniedUnwritten
       /\ (last'.op \in {"AddUser", "AddSubUser"} /\ UIDInUse(last'.uid))
          => (last'.outcome = "err" /\ store' = store)]_vars


\* the stored users with a parent hold none of the bits
SubUsersLack(bits) ==
    \A u \in DOMAIN users :
       users[u].Parent # "" => BitAnd(users[u].SysPerms, bits) = 0

\* an AddSubUser step that asked for one of the bits was refused with
\* "invalid system permissions" and wrote nothing
AddSubUserRejects(bits) ==
    (last'.op = "AddSubUser" /\ BitAnd(last'.sysperms, bits) # 0) =>
       /\ last'.outcome = "err"
       /\ last'.error = "invalid system permissions"
       /\ store' = store

\* C26 as stated: AddSubUser rejects requested system permissions that hold
\* AddUsers or AddGroups, and no user with a parent holds either bit.
C26_SubUsersHoldNeitherBit ==
    /\ [][AddSubUserRejects(User_SysPerms_AddUsers + User_SysPerms_AddGroups)]_vars
    /\ []SubUsersLack(User_SysPerms_AddUsers + User_SysPerms_AddGroups)

\* C26: AddSubUser rejects requested system permissions that hold AddUsers,
\* and no user with a parent holds AddUsers.
C26_SubUsersCannotAddUsers ==
    /\ [][AddSubUserRejects(User_SysPerms_AddUsers)]_vars
    /\ []SubUsersLack(User_SysPerms_AddUsers)

\* a holder of AddSubUsers was refused a sub-user with AddUsers, while a
\* sub-user of the store holds AddGroups
C26_Witness ==
    /\ last.op = "AddSubUser" /\ last.outcome = "err"
    /\ last.error = "invalid system permissions"
    /\ HoldsSysPerm(last.caller, User_SysPerms_AddSubUsers)
    /\ ~SubUsersLack(User_SysPerms_AddGroups)


---------------------------------------------------------------------------
(* Group membership                                                        *)

\* slices.Index(grp.Users, id): the first position of id, 0 for -1
IndexOf(seq, id) ==
    IF \E i \in 1..Len(seq) : seq[i] = id
    THEN CHOOSE i \in 1..Len(seq) :
            seq[i] = id /\ \A j \in 1..(i - 1) : seq[j] # id
    ELSE 0

\* AddUserToGroup from GetUserByUID on, without the test of membership
AddUserToGroup_member_Untested(ws, grp, user) ==
    IF user = NilPtr THEN Ret("err", "unknown user", ws)
    ELSE Ret("ok", "true", [ws EXCEPT !.groups[grp].Users = Append(@, user)])

\* AddUserToGroup from GetUserByUID on
AddUserToGroup_member(ws, grp, user) ==
    IF user = NilPtr THEN Ret("err", "unknown user", ws)
    ELSE IF IndexOf(ws.groups[grp].Users, user) # 0
    THEN Ret("err", "already a member", ws)
    ELSE Ret("ok", "true", [ws EXCEPT !.groups[grp].Users = Append(@, user)])

\* AddUserToGroup(name, uid)
AddUserToGroup(ws, caller, name, uid) ==
    IF GetMyUser(ws, caller) = NilPtr THEN Ret("err", "unknown user", ws)
    ELSE IF GetGroupByName(ws.groups, name) = NilPtr
    THEN Ret("err", "group not found", ws)
    ELSE IF ws.groups[GetGroupByName(ws.groups, name)].Owner # GetMyUser(ws, caller)
    THEN Ret("err", "permission denied", ws)
    ELSE AddUserToGroup_member(ws, GetGroupByName(ws.groups, name),
                               GetUserByUID_query(ws, uid))

\* RemoveUserFromGroup from GetUserByUID on
RemoveUserFromGroup_member(ws, grp, user) ==
    IF user = NilPtr THEN Ret("err", "unknown user", ws)
    ELSE IF IndexOf(ws.groups[grp].Users, user) = 0
    THEN Ret("err", "not a member", ws)
    ELSE Ret("ok", "true",
             [ws EXCEPT !.groups[grp].Users =
                 RemoveAt(@, IndexOf(ws.groups[grp].Users, user))])

\* RemoveUserFromGroup(name, uid)
RemoveUserFromGroup(ws, caller, name, uid) ==
    IF GetMyUser(ws, caller) = NilPtr THEN Ret("err", "unknown user", ws)
    ELSE IF GetGroupByName(ws.groups, name) = NilPtr
    THEN Ret("err", "group not found", ws)
    ELSE IF ws.groups[GetGroupByName(ws.groups, name)].Owner # GetMyUser(ws, caller)
    THEN Ret("err", "permission denied", ws)
    ELSE RemoveUserFromGroup_member(ws, GetGroupByName(ws.groups, name),
                                    GetUserByUID_query(ws, uid))

---------------------------------------------------------------------------
(* The group specification: "alice" and "bob" hold AddGroups, "carol" holds *)
(* nothing; the callers add groups and add and remove members               *)

GroupsUsers ==
    [id \in {"U0", "U1", "U2"} |->
        IF id = "U0" THEN MkUser("U0", "alice", AllSysPerms, "", <<>>)
        ELSE IF id = "U1"
        THEN MkUser("U1", "bob", User_SysPerms_AddGroups, "", <<>>)
        ELSE MkUser("U2", "carol", 0, "", <<>>)]

\* the UIDs asked to be added or removed; "zed" is no user
MemberUIDs == {"alice", "bob", "carol", "zed"}

InitGroups ==
    /\ engine \in {"strict", "lenient"}
    /\ users = GroupsUsers /\ groups = LedgerGroups
    /\ acls = EmptyMap /\ buckets = EmptyMap
    /\ objects = EmptyMap /\ deleted = EmptyMap
    /\ indexes = EmptyMap /\ entries = {} /\ nextid = 0
    /\ last = NoOp /\ walk = IdleWalk /\ test = NoTest

\* the groups the callers add
MaxGroups == 1

CallGroupsAddGroup ==
    /\ nextid < MaxGroups
    /\ \E caller \in Callers, name \in GroupNames, addme \in BOOLEAN :
          LET r == AddGroup(World, caller, name, addme) IN
          /\ Commit(r.ws)
          /\ last' = [op |-> "AddGroup", caller |-> caller, name |-> name,
                      uid |-> "", outcome |-> r.outcome,
                      error |-> IF r.outcome = "err" THEN r.rv ELSE ""]

CallAddUserToGroup ==
    \E caller \in Callers, name \in GroupNames, uid \in MemberUIDs :
       LET r == AddUserToGroup(World, caller, name, uid) IN
       /\ Commit(r.ws)
       /\ last' = [op |-> "AddUserToGroup", caller |-> caller, name |-> name,
                   uid |-> uid, outcome |-> r.outcome,
                   error |-> IF r.outcome = "err" THEN r.rv ELSE ""]

CallRemoveUserFromGroup ==
    \E caller \in Callers, name \in GroupNames, uid \in MemberUIDs :
       LET r == RemoveUserFromGroup(World, caller, name, uid) IN
       /\ Commit(r.ws)
       /\ last' = [op |-> "RemoveUserFromGroup", caller |-> caller,
                   name |-> name, uid |-> uid, outcome |-> r.outcome,
                   error |-> IF r.outcome = "err" THEN r.rv ELSE ""]

NextGroups ==
    CallGroupsAddGroup \/ CallAddUserToGroup \/ CallRemoveUserFromGroup

SpecGroups == InitGroups /\ [][NextGroups]_vars

\* the stored group of that name is owned by the caller
OwnsGroup(caller, name) ==
    /\ GetMyUser(World, caller) # NilPtr
    /\ GetGroupByName(groups, name) # NilPtr
    /\ groups[GetGroupByName(groups, name)].Owner = GetMyUser(World, caller)

\* the uid is that of a stored user who is a member of the stored group
MemberOf(name, uid) ==
    /\ GetGroupByName(groups, name) # NilPtr
    /\ GetUserByUID(users, uid) # NilPtr
    /\ IndexOf(groups[GetGroupByName(groups, name)].Users,
               GetUserByUID(users, uid)) # 0

\* C27: AddUserToGroup and RemoveUserFromGroup succeed only for the owner of
\* the group; adding a member and removing a user who is no member fail and
\* leave the groups as they were; no member list holds a user twice.
C27_MembershipGuarded ==
    /\ [](\A g \in DOMAIN groups :
             \A i, j \in 1..Len(groups[g].Users) :
                groups[g].Users[i] = groups[g].Users[j] => i = j)
    /\ [][/\ (last'.op \in {"AddUserToGroup", "RemoveUserFromGroup"}
              /\ last'.outcome = "ok") => OwnsGroup(last'.caller, last'.name)
          /\ (last'.op = "AddUserToGroup" /\ MemberOf(last'.name, last'.uid))
             => (last'.outcome = "err" /\ store' = store)
          /\ (last'.op = "RemoveUserFromGroup"
              /\ ~MemberOf(last'.name, last'.uid))
             => (last'.outcome = "err" /\ store' = store)]_vars

\* the owner of a group was refused the addition of a member
C27_Witness ==
    /\ last.op = "AddUserToGroup" /\ last.outcome = "err"
    /\ last.error = "already a member"
    /\ OwnsGroup(last.caller, last.name)
    /\ MemberOf(last.name, last.uid)


---------------------------------------------------------------------------
(* The template-name specification: "alice" and "bob" create and delete    *)
(* templates under a plain and under a quoted name, with entries for       *)
(* users and groups that exist and that do not                             *)

\* the group "eng" of "alice"
NamesGroups ==
    MapPut(LedgerGroups, "g1",
           [Type |-> "Group", ID |-> "g1", Name |-> "eng", Owner |-> "U0",
            Parent |-> "", Users |-> <<>>, SubGroups |-> <<>>])

\* the names templates are created under
CreatedNames == {"t"} \cup QuotedNames

\* the uperms and gperms of CreateACL; "zed" is no user and "ops" no group
UEntChoices ==
    {<<>>, <<[name |-> "bob", perms |-> 26]>>, <<[name |-> "zed", perms |-> 2]>>}

GEntChoices ==
    {<<>>, <<[name |-> "eng", perms |-> 2]>>, <<[name |-> "ops", perms |-> 2]>>}

InitNames ==
    /\ engine \in {"strict", "lenient"}
    /\ users = StoreUsers /\ groups = NamesGroups
    /\ acls = EmptyMap /\ buckets = EmptyMap
    /\ objects = EmptyMap /\ deleted = EmptyMap
    /\ indexes = EmptyMap /\ entries = {} /\ nextid = 0
    /\ last = NoOp /\ walk = IdleWalk /\ test = NoTest

CallNamesCreateACL ==
    /\ nextid < MaxIds
    /\ \E caller \in Callers, name \in CreatedNames,
          uents \in UEntChoices, gents \in GEntChoices :
          LET r == CreateACL(World, caller, name, uents, gents) IN
          /\ Commit(r.ws)
          /\ last' = [op |-> "CreateACL", caller |-> caller, name |-> name,
                      uperms |-> uents, gperms |-> gents,
                      outcome |-> r.outcome]

CallNamesDeleteMyACL ==
    \E caller \in Callers, name \in CreatedNames :
       LET r == DeleteMyACL(World, caller, name) IN
       /\ Commit(r.ws)
       /\ last' = [op |-> "DeleteMyACL", caller |-> caller, name |-> name,
                   uperms |-> <<>>, gperms |-> <<>>, outcome |-> r.outcome]

NextNames == CallNamesCreateACL \/ CallNamesDeleteMyACL

SpecNames == InitNames /\ [][NextNames]_vars

\* the caller owns a stored template of that name
OwnsTemplateNamed(caller, name) ==
    \E a \in DOMAIN acls :
       acls[a].Name = name /\ acls[a].Owner = GetMyUser(World, caller)

\* one of the named users or groups is not stored
Unresolvable(uents, gents) ==
    \/ \E i \in 1..Len(uents) : GetUserByUID(users, uents[i].name) = NilPtr
    \/ \E i \in 1..Len(gents) : GetGroupByName(groups, gents[i].name) = NilPtr

\* the entry is what CreateACL makes of a pair of the map, tagged with kind
EntryOf(e, ents, kind, ids) ==
    /\ e.EntryType = kind /\ e.ID \in ids
    /\ \E i \in 1..Len(ents) : e.Permissions = ents[i].perms

\* a CreateACL step for a name the caller owns a template of, or with an
\* entity that is not stored, fails and stores nothing
CreateACLRefuses ==
    (/\ last'.op = "CreateACL"
     /\ \/ OwnsTemplateNamed(last'.caller, last'.name)
        \/ Unresolvable(last'.uperms, last'.gperms))
    => (last'.outcome = "err" /\ store' = store)

\* no owner has two templates with the same name
TemplateNamesUnique ==
    \A a, b \in DOMAIN acls :
       (acls[a].Owner = acls[b].Owner /\ acls[a].Name = acls[b].Name) => a = b

\* the entries of the template a CreateACL step stored are tagged Group for
\* the pairs of gperms and User for the pairs of uperms
CreateACLTags ==
    (last'.op = "CreateACL" /\ last'.outcome = "ok") =>
       \A a \in DOMAIN acls' \ DOMAIN acls :
          /\ Len(acls'[a].Permissions) = Len(last'.uperms) + Len(last'.gperms)
          /\ \A i \in 1..Len(acls'[a].Permissions) :
                \/ EntryOf(acls'[a].Permissions[i], last'.gperms,
                           ACL_EntryType_Group, DOMAIN groups)
                \/ EntryOf(acls'[a].Permissions[i], last'.uperms,
                           ACL_EntryType_User, DOMAIN users)

\* C28: CreateACL fails and stores nothing when the caller owns a template
\* of the name or a named user or group cannot be resolved; no owner has two
\* templates with the same name; every stored entry is tagged User or Group
\* by the map it came from.
C28_CreateACLGuarded ==
    /\ [][CreateACLRefuses /\ CreateACLTags]_vars
    /\ []TemplateNamesUnique


---------------------------------------------------------------------------
(* Claims on the entries of a template (SpecTemplates: the entry operations *)
(* are called on the template "t" of the caller, for the user "bob")        *)

\* the caller's template "t" before the step
MyTemplate(caller) == GetMyACLByName(World, caller, "t")

\* the position of the entry for the user "bob" in a list, 0 for none
BobEntry(perms) ==
    FindEntry(perms, ACL_EntryType_User, GetUserByUID(users, "bob"))

\* the step failed and left the store as it was
FailedUnwritten == last'.outcome = "err" /\ store' = store

\* the step succeeded and changed nothing but the entries of the caller's
\* template "t", which became after
EntriesBecome(caller, after) ==
    /\ last'.outcome = "ok"
    /\ acls' = [acls EXCEPT ![MyTemplate(caller).ID].Permissions = after]
    /\ users' = users /\ groups' = groups /\ buckets' = buckets
    /\ objects' = objects /\ deleted' = deleted
    /\ indexes' = indexes /\ entries' = entries

\* what C29 asks of a step of op on a template with entries perms
EntryStep(op, caller, perms) ==
    IF op = "AddACLEntry"
    THEN IF BobEntry(perms) # 0 THEN FailedUnwritten
         ELSE /\ EntriesBecome(caller, acls'[MyTemplate(caller).ID].Permissions)
              /\ Len(acls'[MyTemplate(caller).ID].Permissions) = Len(perms) + 1
              /\ SubSeq(acls'[MyTemplate(caller).ID].Permissions, 1, Len(perms))
                 = perms
              /\ BobEntry(acls'[MyTemplate(caller).ID].Permissions)
                 = Len(perms) + 1
              /\ acls'[MyTemplate(caller).ID].Permissions[Len(perms) + 1].Permissions
                 = 26
    ELSE IF BobEntry(perms) = 0 THEN FailedUnwritten
    ELSE IF op = "EditACLEntry"
    THEN EntriesBecome(caller,
                       [perms EXCEPT ![BobEntry(perms)].Permissions = 2])
    ELSE EntriesBecome(caller,
                       SubSeq(perms, 1, BobEntry(perms) - 1)
                       \o SubSeq(perms, BobEntry(perms) + 1, Len(perms)))

\* C29: on the caller's template AddACLEntry fails, the template unchanged,
\* when the entry for the (kind, entity) is present; EditACLEntry and
\* DeleteACLEntry fail, the template unchanged, when it is absent; otherwise
\* the one matching entry is inserted, replaced or deleted and every other
\* entry is unchanged.
C29_EntryOperations ==
    [][(/\ last'.op \in {"AddACLEntry", "EditACLEntry", "DeleteACLEntry"}
        /\ ~IsNil(MyTemplate(last'.caller)))
       => EntryStep(last'.op, last'.caller,
                    MyTemplate(last'.caller).Permissions)]_vars


---------------------------------------------------------------------------
(* Claims on the undo of a half-made sub-user or sub-group                 *)

\* the documents of the store (nextid counts the uuids drawn, not documents)
documents ==
    <<users, groups, acls, buckets, objects, deleted, indexes, entries>>

\* the step is an AddSubUser or AddSubGroup whose put of the parent failed
\* after the child was put
LinkPutFailed ==
    /\ last'.op \in {"AddSubUser", "AddSubGroup"}
    /\ last'.error = "failed to put to world state"

---------------------------------------------------------------------------
(* Failing calls of the state store and of the blob store                  *)

\* the entries of the store that carry the index ID
EntriesOf(ws, indexid) == {e \in ws.entries : e[1] = indexid}

\* RemoveIndex whose deleted record takes every entry of its index with it,
\* whatever DelState answers
RemoveIndex_Swept(ws, caller, field, bucket, recordok, failed) ==
    IF GetMyUser(ws, caller) = NilPtr THEN Ret("err", "unknown user", ws)
    ELSE IF IsNil(getindex(ws, GetMyUser(ws, caller), field, bucket))
    THEN Ret("err", "unknown index", ws)
    ELSE IF ~recordok THEN Ret("err", "delete failed", ws)
    ELSE Ret("ok", "true",
             [ws EXCEPT
                 !.indexes = MapDel(@, <<GetMyUser(ws, caller), bucket, field>>),
                 !.entries = @ \ EntriesOf(ws,
                     getindex(ws, GetMyUser(ws, caller), field, bucket).ID)])

\* RemoveIndex(field, bucket); recordok tells whether the DelState of the Index
\* record succeeds, failed is the set of entries whose iter.Next() or DelState
\* fails: the loop goes on to the next entry and the call returns true
RemoveIndex(ws, caller, field, bucket, recordok, failed) ==
    IF GetMyUser(ws, caller) = NilPtr THEN Ret("err", "unknown user", ws)
    ELSE IF IsNil(getindex(ws, GetMyUser(ws, caller), field, bucket))
    THEN Ret("err", "unknown index", ws)
    ELSE IF ~recordok THEN Ret("err", "delete failed", ws)
    ELSE Ret("ok", "true",
             [ws EXCEPT
                 !.indexes = MapDel(@, <<GetMyUser(ws, caller), bucket, field>>),
                 !.entries = @ \ (EntriesOf(ws,
                     getindex(ws, GetMyUser(ws, caller), field, bucket).ID)
                                  \ failed)])

\* createobject, its answer with a working store in hand, when the PutState
\* and DelState of its index entries fail: the results of
\* removeobjectfromindex and addobjecttoindex are dropped
createobject_entries(ws, idxok, done) ==
    IF done.outcome = "ok" /\ ~idxok
    THEN Ret("ok", done.rv, [done.ws EXCEPT !.entries = ws.entries])
    ELSE done

\* createobject; idxok tells whether the writes of index entries succeed
createobject_io(ws, caller, bucket, key, metadata, aclTemplate, flags, overwrite, idxok) ==
    createobject_entries(ws, idxok,
        createobject(ws, caller, bucket, key, metadata, aclTemplate, flags,
                     overwrite))

\* RemoveObject, its answer with working index entries in hand, when the
\* DelState of its index entries fails
RemoveObject_entries(ws, idxok, done) ==
    IF done.outcome = "ok" /\ ~idxok
    THEN Ret("ok", done.rv, [done.ws EXCEPT !.entries = ws.entries])
    ELSE done

\* RemoveObject; s3ok tells whether the blob store's RemoveObject succeeds,
\* idxok whether the deletes of index entries do
RemoveObject_io(ws, caller, bucket, key, s3ok, idxok) ==
    RemoveObject_entries(ws, idxok, RemoveObject(ws, caller, bucket, key, s3ok))

---------------------------------------------------------------------------
(* The index specification: "alice" and "bob" create and remove indexes on *)
(* the bucket "docs" and create and remove the object "a", while calls of  *)
(* the state store and of the blob store may fail                          *)

IndexFields == {"color", "size"}

InitIndexes ==
    /\ engine \in {"strict", "lenient"}
    /\ users = StoreUsers /\ groups = EmptyMap
    /\ acls = ObjectsAcls /\ buckets = StoreBuckets
    /\ objects = EmptyMap /\ deleted = EmptyMap
    /\ indexes = EmptyMap /\ entries = {} /\ nextid = 0
    /\ last = NoOp /\ walk = IdleWalk /\ test = NoTest

\* the object the caller's RemoveObject would delete has a blob
HasBlob(key) ==
    /\ <<"docs", key>> \in DOMAIN objects
    /\ BitAnd(objects[<<"docs", key>>].Flags, ObjectFlag_IndexOnly) = 0

\* the caller has an index on a field of the metadata
Indexed(caller, metadata) ==
    IndexedFields(World, GetMyUser(World, caller), "docs", metadata) # {}

\* the entries are entries of the caller's index on the field
MyEntries(caller, field, failed) ==
    /\ ~IsNil(getindex(World, GetMyUser(World, caller), field, "docs"))
    /\ failed \subseteq
          EntriesOf(World,
                    getindex(World, GetMyUser(World, caller), field, "docs").ID)

CallIndexesCreateIndex ==
    /\ nextid < MaxIds
    /\ \E caller \in Callers, field \in IndexFields :
          LET r == CreateIndex(World, caller, field, "docs") IN
          /\ Commit(r.ws)
          /\ last' = [op |-> "CreateIndex", caller |-> caller, field |-> field,
                      fault |-> "none", outcome |-> r.outcome]

CallRemoveIndex ==
    \E caller \in Callers, field \in IndexFields, recordok \in BOOLEAN,
       failed \in SUBSET entries :
       LET r == RemoveIndex(World, caller, field, "docs", recordok, failed) IN
       /\ failed = {} \/ MyEntries(caller, field, failed)
       /\ recordok \/ failed = {}
       /\ Commit(r.ws)
       /\ last' = [op |-> "RemoveIndex", caller |-> caller, field |-> field,
                   fault |-> IF ~recordok THEN "record"
                             ELSE IF failed # {} THEN "entry" ELSE "none",
                   outcome |-> r.outcome]

CallIndexesCreateObject ==
    /\ nextid < MaxIds
    /\ \E caller \in Callers, metadata \in MetadataChoices,
          flags \in {0, ObjectFlag_IndexOnly}, overwrite \in BOOLEAN,
          idxok \in BOOLEAN :
          LET r == createobject_io(World, caller, "docs", "a", metadata, "t",
                                   flags, overwrite, idxok) IN
          /\ idxok \/ (r.outcome = "ok" /\ Indexed(caller, metadata))
          /\ Commit(r.ws)
          /\ last' = [op |-> "createobject", caller |-> caller,
                      field |-> "color",
                      fault |-> IF idxok THEN "none" ELSE "entry",
                      outcome |-> r.outcome]

CallIndexesRemoveObject ==
    \E caller \in Callers, s3ok \in BOOLEAN, idxok \in BOOLEAN :
       LET r == RemoveObject_io(World, caller, "docs", "a", s3ok, idxok) IN
       /\ s3ok \/ (r.outcome = "ok" /\ HasBlob("a"))
       /\ idxok \/ (/\ r.outcome = "ok"
                    /\ Indexed(caller, objects[<<"docs", "a">>].Metadata))
       /\ Commit(r.ws)
       /\ last' = [op |-> "RemoveObject", caller |-> caller, field |-> "color",
                   fault |-> IF ~idxok THEN "entry"
                             ELSE IF ~s3ok THEN "blob" ELSE "none",
                   outcome |-> r.outcome]

NextIndexes ==
    \/ CallIndexesCreateIndex \/ CallRemoveIndex
    \/ CallIndexesCreateObject \/ CallIndexesRemoveObject

SpecIndexes == InitIndexes /\ [][NextIndexes]_vars

\* C31: a call of the state store or of the blob store that fails within an
\* operation makes the operation return an error, never success: so for the
\* blob removal of RemoveObject, the writes and deletes of index entries of
\* createobject and RemoveObject, and the deletes of entries of RemoveIndex.
C31_FailuresReported ==
    [][last'.fault # "none" => last'.outcome = "err"]_vars


\* the caller's Index record on the field of "docs" before the step
MyIndex(caller, field) ==
    getindex(World, GetMyUser(World, caller), field, "docs")

\* the key of that record
MyIndexKey(caller, field) == <<GetMyUser(World, caller), "docs", field>>

\* the step removed the record of the index and its entries and nothing else
IndexRemoved(key, indexid) ==
    /\ key \notin DOMAIN indexes'
    /\ \A e \in entries' : e[1] # indexid
    /\ \A k \in DOMAIN indexes \ {key} :
          k \in DOMAIN indexes' /\ indexes'[k] = indexes[k]
    /\ DOMAIN indexes' \subseteq DOMAIN indexes
    /\ \A e \in entries : e[1] # indexid => e \in entries'
    /\ entries' \subseteq entries

\* C32: after a successful RemoveIndex(field, bucket) the caller's Index
\* record for (bucket, field) is absent and no entry with its ID remains,
\* while the records and entries of every other index are unchanged;
\* RemoveIndex of an index the caller does not have fails without writing.
C32_RemoveIndexSweeps ==
    [][last'.op = "RemoveIndex" =>
          IF IsNil(MyIndex(last'.caller, last'.field))
          THEN last'.outcome = "err" /\ store' = store
          ELSE last'.outcome = "ok" =>
                  IndexRemoved(MyIndexKey(last'.caller, last'.field),
                               MyIndex(last'.caller, last'.field).ID)]_vars

\* every Index record is stored under its owner, bucket and field
IndexKeyed ==
    \A k \in DOMAIN indexes :
       /\ indexes[k].Owner = k[1] /\ indexes[k].Bucket = k[2]
       /\ indexes[k].Field = k[3]

---------------------------------------------------------------------------
(* Further claims about the group walk, checked under SpecWalk             *)

\* the link of walk.cur in its parent has no applicable grant for the bucket
GLinkWithoutGrant ==
    AtGLink /\ SpecGrant(GLinkPermsAtCur, walk.bucket) = 0

\* from w the next evaluation of the inner loop ends it: the range over the
\* member groups goes on with member gi, the map being rv
MovesOnTo(w, gi, rv) ==
    /\ w.status = "running"
    /\ gatherallgperms_iter(groups, w).status = "running"
    /\ gatherallgperms_iter(groups, w).pc = "group"
    /\ gatherallgperms_iter(groups, w).gi = gi
    /\ gatherallgperms_iter(groups, w).rv = rv

\* C34: in gatherallgperms the upward walk from a member group stops at the
\* first SubGroup link without an applicable grant for the bucket: no group
\* above the link receives a permission by that path, and the walk goes on
\* with the next member group without faulting.
C34_NoGrantEndsPath ==
    [][GLinkWithoutGrant => MovesOnTo(walk', walk.gi + 1, walk.rv)]_vars

RECURSIVE PathMask(_, _, _, _, _)
\* the mask that reaches the group to on the way up from the group from,
\* which starts with eff: eff ANDed with the grant of every link on the way,
\* 0 when to is not above from or a link leaves nothing
PathMask(gs, from, to, b, eff) ==
    IF from = to THEN eff
    ELSE IF gs[from].Parent = "" \/ eff = 0 THEN 0
    ELSE PathMask(gs, gs[from].Parent, to, b,
                  BitAnd(eff, SpecGrant(LinkPermsOf(gs[gs[from].Parent].SubGroups,
                                                    from), b)))

\* the largest of a non-empty set of masks
MaxMask(S) == CHOOSE x \in S : \A y \in S : y <= x

\* the map the aggregation over the member groups mem is to return: 0xFF for
\* a member group, else the maximum over the members' paths, no key for 0
ExpectedGroupMap(gs, mem, b) ==
    LET mask(a) == IF a \in mem THEN FullPerms
                   ELSE MaxMask({PathMask(gs, m, a, b, FullPerms) : m \in mem})
    IN [a \in {x \in DOMAIN gs : mask(x) # 0} |-> mask(a)]

\* C39: the map gatherallgperms returns for a user's member groups does not
\* depend on the order of the groups: every member group ends with 0xFF and
\* every other reachable ancestor with the maximum mask over all paths.
C39_OrderIndependent ==
    GWalkOver =>
       /\ walk.status = "returned"
       /\ walk.rv = ExpectedGroupMap(groups,
                                     {walk.glist[i] : i \in 1..Len(walk.glist)},
                                     walk.bucket)

---------------------------------------------------------------------------
(* ReadObject and the Read test of GetObjectByPath                        *)

\* ReadObject, the answer of the last Read test in hand; the presigned URL
\* is returned on success
ReadObject_tested(ws, ok) ==
    IF ok = "panic" THEN Ret("panic", "", ws)
    ELSE IF ok = "denied" THEN Ret("err", "", ws)     \* permission denied
    ELSE Ret("ok", "url", ws)

\* ReadObject after the test of the object's ACL: when that test did not
\* grant the access ("if !ok") the bucket is fetched and its ACL is tested
ReadObject_bucket(ws, caller, bucket, ok, bkt) ==
    IF ok # "denied" THEN ReadObject_tested(ws, ok)
    ELSE IF IsNil(bkt) THEN Ret("err", "", ws)
    ELSE IF Len(bkt.Permissions) # 0
    THEN ReadObject_tested(ws,
            testaclaccess(ws.users, ws.groups, ws.engine, bkt.Permissions,
                          caller, bucket, ACL_AccessType_Read))
    ELSE ReadObject_tested(ws, "denied")

\* ReadObject, the object document in hand
ReadObject_found(ws, caller, me, bucket, obj) ==
    IF obj.Owner = me THEN Ret("ok", "url", ws)
    ELSE ReadObject_bucket(ws, caller, bucket,
            IF Len(obj.Permissions) # 0
            THEN testaclaccess(ws.users, ws.groups, ws.engine, obj.Permissions,
                               caller, bucket, ACL_AccessType_Read)
            ELSE "denied",
            GetBucket(ws, bucket))

\* ReadObject(bucket, key)
ReadObject(ws, caller, bucket, key) ==
    IF GetMyUser(ws, caller) = NilPtr THEN Ret("err", "", ws)
    ELSE IF <<bucket, key>> \notin DOMAIN ws.objects
    THEN Ret("err", "", ws)                           \* unknown object
    ELSE ReadObject_found(ws, caller, GetMyUser(ws, caller), bucket,
                          ws.objects[<<bucket, key>>])

\* createobject of the object "a" in the bucket "docs"
CallReadCreateObject ==
    /\ nextid < MaxIds
    /\ \E caller \in Callers, aclTemplate \in TemplateNames :
          LET r == createobject(World, caller, "docs", "a",
                                [f \in {"color"} |-> "red"], aclTemplate,
                                ObjectFlag_IndexOnly, TRUE) IN
          /\ Commit(r.ws)
          /\ last' = [op |-> "createobject", caller |-> caller,
                      outcome |-> r.outcome]

CallReadObject ==
    \E caller \in Callers :
        LET r == ReadObject(World, caller, "docs", "a") IN
        /\ Commit(r.ws)
        /\ last' = [op |-> "ReadObject", caller |-> caller,
                    outcome |-> r.outcome]

CallReadGetObjectByPath ==
    \E caller \in Callers :
        LET r == GetObjectByPath(World, caller, "docs", "a") IN
        /\ Commit(r.ws)
        /\ last' = [op |-> "GetObjectByPath", caller |-> caller,
                    outcome |-> r.outcome]

NextRead ==
    \/ CallSetBucketACLFromTemplate \/ CallReadCreateObject
    \/ CallReadObject \/ CallReadGetObjectByPath

SpecRead == InitObjects /\ [][NextRead]_vars

\* C35: ReadObject and GetObjectByPath grant Read to the same callers of the
\* same object in every state, and a caller who is not the owner of an object
\* with a non-empty ACL is granted by ReadObject exactly when that ACL grants
\* Read
C35_ObjectAclDecidesRead ==
    \A caller \in Callers :
        /\ (ReadObject(World, caller, "docs", "a").outcome = "ok")
              <=> (GetObjectByPath(World, caller, "docs", "a").outcome = "ok")
        /\ (/\ <<"docs", "a">> \in DOMAIN objects
            /\ GetMyUser(World, caller) # NilPtr
            /\ objects[<<"docs", "a">>].Owner # GetMyUser(World, caller)
            /\ Len(objects[<<"docs", "a">>].Permissions) # 0)
              => ((ReadObject(World, caller, "docs", "a").outcome = "ok")
                    <=> testaclaccess(users, groups, engine,
                                      objects[<<"docs", "a">>].Permissions,
                                      caller, "docs", ACL_AccessType_Read)
                          = "granted")

\* the object's own ACL denies Read to a caller whom the bucket's ACL grants it
C35_DeniedByObjectGrantedByBucket ==
    \E caller \in Callers :
        /\ <<"docs", "a">> \in DOMAIN objects
        /\ GetMyUser(World, caller) # NilPtr
        /\ objects[<<"docs", "a">>].Owner # GetMyUser(World, caller)
        /\ Len(objects[<<"docs", "a">>].Permissions) # 0
        /\ testaclaccess(users, groups, engine,
                         objects[<<"docs", "a">>].Permissions,
                         caller, "docs", ACL_AccessType_Read) = "denied"
        /\ ReadObject(World, caller, "docs", "a").outcome = "ok"
        /\ GetObjectByPath(World, caller, "docs", "a").outcome = "err"

---------------------------------------------------------------------------
(* createobject without overwrite on a key that holds an object, checked    *)
(* under SpecObjects                                                       *)

\* C36: a createobject step with overwrite = false on a key of "docs" that
\* holds a live object fails and leaves the objects and the index entries as
\* they were, whoever the caller is
C36_NoOverwriteKeepsObject ==
    [][(/\ last'.op = "createobject"
        /\ ~last'.overwrite
        /\ <<"docs", last'.key>> \in DOMAIN objects)
          => (/\ last'.outcome = "err"
              /\ objects' = objects
              /\ entries' = entries)]_vars

\* the same formula for the callers whom GetObjectByPath lets read the object
C36_ReaderIsRefused ==
    [][(/\ last'.op = "createobject"
        /\ ~last'.overwrite
        /\ GetObjectByPath(World, last'.caller, "docs", last'.key).outcome = "ok")
          => (/\ last'.outcome = "err"
              /\ objects' = objects
              /\ entries' = entries)]_vars

---------------------------------------------------------------------------
(* The access test and larger ACLs, checked under SpecAcl                  *)

\* the largest ACL the extensions of a tested ACL are drawn with
MaxAclLen == 3

\* the ACLs of at most MaxAclLen entries
LongerAcls ==
    UNION {[1..n -> AclEntries] : n \in 0..MaxAclLen}

\* b holds the entries of a, each at a place of its own, in any order, and
\* possibly further entries
ExtendsAcl(a, b) ==
    \E f \in [1..Len(a) -> 1..Len(b)] :
        /\ \A i, j \in 1..Len(a) : f[i] = f[j] => i = j
        /\ \A i \in 1..Len(a) : b[f[i]] = a[i]

\* C37: when testaclaccess returns true for an ACL it returns true, in the
\* same store and for the same uid, bucket and access kind, for every ACL made
\* by adding entries to it or by reordering its entries
C37_GrantSurvivesMoreEntries ==
    (test.status = "done" /\ test.res = "granted") =>
        \A b \in LongerAcls :
            ExtendsAcl(test.acl, b) =>
                testaclaccess(users, groups, engine, b, test.uid, test.bucket,
                              test.access) = "granted"

\* an ACL of one entry granted the access, and among its extensions is one
\* whose first entry has the bit of the access and does not match the caller
C37_Witness ==
    /\ test.status = "done" /\ test.res = "granted"
    /\ Len(test.acl) = 1
    /\ \E b \in LongerAcls :
          /\ ExtendsAcl(test.acl, b)
          /\ Len(b) = 2 /\ b[2] = test.acl[1]
          /\ BitAnd(access_to_bits[test.access + 1], b[1].Permissions) # 0
          /\ testaclaccess(users, groups, engine, <<b[1]>>, test.uid,
                           test.bucket, test.access) = "denied"

---------------------------------------------------------------------------
(* IsUserMyDescendent: the walk from a user toward the root                *)

\* the state of one call: me and user are the IDs held by the variables of
\* that name declared before the loop, fetched is the ID held by the variable
\* "user" that the loop body declares
IsUserMyDescendent_call(caller, uid, me, user, status, rv) ==
    [fn |-> "IsUserMyDescendent", caller |-> caller, uid |-> uid, me |-> me,
     user |-> user, fetched |-> NilPtr, status |-> status, rv |-> rv]

\* IsUserMyDescendent up to the loop: the caller and the user are looked up
IsUserMyDescendent_begin(us, caller, uid) ==
    IF GetUserByUID(us, caller) = NilPtr
    THEN IsUserMyDescendent_call(caller, uid, NilPtr, NilPtr, "error", FALSE)
    ELSE IF GetUserByUID(us, uid) = NilPtr
    THEN IsUserMyDescendent_call(caller, uid, GetUserByUID(us, caller), NilPtr,
                                 "error", FALSE)
    ELSE IsUserMyDescendent_call(caller, uid, GetUserByUID(us, caller),
                                 GetUserByUID(us, uid), "running", FALSE)

\* one pass of the loop body with "user = ..." in place of "user, err := ...":
\* the fetched parent becomes the user of the next pass
IsUserMyDescendent_iter_Assigned(us, t) ==
    IF us[t.user].Parent = ""
    THEN [t EXCEPT !.status = "returned", !.rv = FALSE]
    ELSE IF us[t.user].Parent = t.me
    THEN [t EXCEPT !.status = "returned", !.rv = TRUE]
    ELSE IF us[t.user].Parent \notin DOMAIN us
    THEN [t EXCEPT !.status = "error"]
    ELSE [t EXCEPT !.user = us[t.user].Parent, !.fetched = us[t.user].Parent]

\* one pass of the loop body.  "user, err := s.GetUserByID(ctx, user.Parent)"
\* declares a new variable user in the body: the parent is fetched into it and
\* the user the next pass tests is the one the loop started with
IsUserMyDescendent_iter(us, t) ==
    IF us[t.user].Parent = ""
    THEN [t EXCEPT !.status = "returned", !.rv = FALSE]
    ELSE IF us[t.user].Parent = t.me
    THEN [t EXCEPT !.status = "returned", !.rv = TRUE]
    ELSE IF us[t.user].Parent \notin DOMAIN us
    THEN [t EXCEPT !.status = "error"]
    ELSE [t EXCEPT !.fetched = us[t.user].Parent]

\* the UIDs of the callers and of the users asked about
DescendentUIDs == {users[id].UID : id \in DOMAIN users} \cup {"mallory"}

InitDescendent ==
    /\ \E f \in [1..MaxChain -> {MkPerms(Absent, Absent), MkPerms(6, Absent)}] :
          users = ChainUsers(f)
    /\ groups = EmptyMap
    /\ engine \in {"strict", "lenient"}
    /\ acls = EmptyMap /\ buckets = EmptyMap /\ objects = EmptyMap
    /\ deleted = EmptyMap
    /\ indexes = EmptyMap /\ entries = {} /\ nextid = 0
    /\ last = NoOp /\ walk = IdleWalk
    /\ test = NoTest

\* a caller invokes IsUserMyDescendent(uid)
StartIsUserMyDescendent ==
    /\ test.status = "idle"
    /\ \E caller \in DescendentUIDs, uid \in DescendentUIDs :
          test' = IsUserMyDescendent_begin(users, caller, uid)
    /\ UNCHANGED <<store, engine, last, walk>>

\* the call runs one pass of its loop
IsUserMyDescendentIter ==
    /\ test.status = "running"
    /\ test' = IsUserMyDescendent_iter(users, test)
    /\ UNCHANGED <<store, engine, last, walk>>

\* the answer (or the error) is delivered
IsUserMyDescendentDone ==
    /\ test.status \in {"returned", "error"}
    /\ test' = NoTest
    /\ UNCHANGED <<store, engine, last, walk>>

NextDescendent ==
    StartIsUserMyDescendent \/ IsUserMyDescendentIter \/ IsUserMyDescendentDone

\* a call that is running keeps being run
SpecDescendent ==
    InitDescendent /\ [][NextDescendent]_vars /\ WF_vars(IsUserMyDescendentIter)

RECURSIVE ProperAncestor(_, _, _)
\* a is the parent, the grandparent, ... of d
ProperAncestor(us, a, d) ==
    /\ us[d].Parent # ""
    /\ us[d].Parent \in DOMAIN us
    /\ (us[d].Parent = a \/ ProperAncestor(us, a, us[d].Parent))

\* C38: every call of IsUserMyDescendent with a known caller and a known uid
\* returns, and what it returns is true exactly when the caller is a proper
\* ancestor of the user with that uid
C38_TerminatesWithAncestry ==
    /\ [](test.status = "returned"
             => (test.rv <=> ProperAncestor(users, test.me, test.user)))
    /\ (test.status = "running") ~> (test.status = "returned")

\* what a call returns, when it returns, tells whether the caller is a proper
\* ancestor of the user
C38_ReturnedAnswerIsAncestry ==
    test.status = "returned"
        => (test.rv <=> ProperAncestor(users, test.me, test.user))

\* a call about a user whose parent is neither the caller nor absent has run
\* the loop body at least once and is still running
C38_StuckBelowTheParent ==
    /\ test.status = "running"
    /\ test.fetched # NilPtr
    /\ users[test.user].Parent = test.fetched

===========================================================================
